---- MODULE Spec2Model ----
(***************************************************************************)
(* A model of package wrfs: the capability-probing dispatch functions      *)
(* (Chown, Lchown, Chmod, Chtimes, Truncate, Mkdir, MkdirAll, ...) over a   *)
(* collaborator filesystem.  The collaborator is wrfstest.MapFS seen        *)
(* through a wrapper that exposes a chosen set of capabilities (as the      *)
(* tests' chownOnly / openOnly / mkdirOnly wrappers do) and that may make   *)
(* an underlying call fail.                                                 *)
(*                                                                          *)
(* A path is a sequence of one-character strings, so that the byte scans    *)
(* of the code (ValidPath, the backward scan of MkdirAll) are modelled as   *)
(* the code computes them.                                                  *)
(***************************************************************************)
EXTENDS Integers, Sequences, FiniteSets, TLC

\* Longest path name handed to the metadata and simple dispatch functions.
MaxNameLen == 3
\* Most path elements in a path name handed to MkdirAll.
MaxElems == 3

Chars == {"a", "/", "."}

Strs(n) == UNION {[1..k -> Chars] : k \in 0..n}

\* The path elements MkdirAll is tried on: a name, ".", and the empty element
\* (a leading, trailing or doubled "/").
Elems == {<<"a">>, <<".">>, <<>>}

RECURSIVE Join(_)
\* the elements joined by "/"
Join(es) ==
  IF Len(es) = 1 THEN es[1]
  ELSE Join(SubSeq(es, 1, Len(es) - 1)) \o <<"/">> \o es[Len(es)]

Joined(n) == {Join(es) : es \in UNION {[1..k -> Elems] : k \in 1..n}}

\* ------------------------------------------------------------------ paths

RECURSIVE IndexFrom(_, _, _)
\* index of the first c in s at or after position i, or Len(s)+1
IndexFrom(s, c, i) ==
  IF i > Len(s) THEN Len(s) + 1
  ELSE IF s[i] = c THEN i
  ELSE IndexFrom(s, c, i + 1)

RECURSIVE ValidFrom(_, _)
\* the element loop of io/fs.ValidPath on name[i..]
ValidFrom(name, i) ==
  LET k == IndexFrom(name, "/", i)
      elem == SubSeq(name, i, k - 1)
  IN IF elem = <<>> \/ elem = <<".">> \/ elem = <<".", ".">> THEN FALSE
     ELSE IF k > Len(name) THEN TRUE
     ELSE ValidFrom(name, k + 1)

ValidPath(name) == name = <<".">> \/ ValidFrom(name, 1)

HasPrefix(s, prefix) ==
  Len(s) >= Len(prefix) /\ SubSeq(s, 1, Len(prefix)) = prefix

\* ----------------------------------------------------------------- errors

ErrUnsupported == "ErrUnsupported"
ErrNotSupported == "ErrNotSupported"
ErrNotExist == "ErrNotExist"
ErrExist == "ErrExist"
ErrPermission == "ErrPermission"
ENOTDIR == "ENOTDIR"
EIO == "EIO"

NoErr == [kind |-> "nil", op |-> "", path |-> <<>>, new |-> <<>>, cause |-> ""]

PathError(op, path, cause) ==
  [kind |-> "PathError", op |-> op, path |-> path, new |-> <<>>, cause |-> cause]

LinkError(op, old, new, cause) ==
  [kind |-> "LinkError", op |-> op, path |-> old, new |-> new, cause |-> cause]

\* an error value that is a bare cause (return ErrNotSupported)
BareError(cause) ==
  [kind |-> "bare", op |-> "", path |-> <<>>, new |-> <<>>, cause |-> cause]

\* the call did not return: a run-time panic unwound it
Panic ==
  [kind |-> "panic", op |-> "", path |-> <<>>, new |-> <<>>, cause |-> "nil dereference"]

\* ------------------------------------------------------------------ MapFS

ModePerm == 511

MapFile(dir, perm, uid, gid, atime, mtime, size, sys) ==
  [dir |-> dir, perm |-> perm, uid |-> uid, gid |-> gid,
   atime |-> atime, mtime |-> mtime, size |-> size, sys |-> sys]

\* &MapFile{Mode: fs.ModeDir}: a directory synthesized for a parent of a key
SynthDir == MapFile(TRUE, 0, 0, 0, 0, 0, 0, FALSE)

EmptyFS == [p \in {} |-> SynthDir]

HelloFile == MapFile(FALSE, 438, 1, 1, 0, 0, 11, TRUE)

\* testFS with "hello.txt" written "a"
TestFS == [p \in {<<"a">>} |-> HelloFile]

\* testFS's "subdir/goodbye.txt" written "a/a": "a" is a synthesized directory
SubdirFS == [p \in {<<"a", "/", "a">>} |-> HelloFile]

HasChildren(files, name) ==
  \E k \in DOMAIN files : HasPrefix(k, name \o <<"/">>)

\* MapFS.Open: [err, kind, f] with kind "file" (openMapFile), "dir" (mapDir)
\* or "nil" (no file), and f the MapFile the handle refers to.
MapFSOpen(files, name) ==
  IF ~ValidPath(name)
  THEN [err |-> PathError("open", name, ErrNotExist), kind |-> "nil", f |-> SynthDir]
  ELSE IF name \in DOMAIN files /\ ~files[name].dir
  THEN [err |-> NoErr, kind |-> "file", f |-> files[name]]
  ELSE IF name # <<".">> /\ name \notin DOMAIN files /\ ~HasChildren(files, name)
  THEN [err |-> PathError("open", name, ErrNotExist), kind |-> "nil", f |-> SynthDir]
  ELSE [err |-> NoErr, kind |-> "dir",
        f |-> IF name \in DOMAIN files THEN files[name] ELSE SynthDir]

\* MapFS.OpenFile.  O_CREATE (64) and O_TRUNC (512) are tested with
\* flag&os.O_CREATE == 1 and flag&os.O_TRUNC == 1, which no flag satisfies, so
\* the create and truncate branches are never taken.
MapFSOpenFile(files, name, flag) ==
  IF flag = 0 THEN MapFSOpen(files, name)
  ELSE LET o == MapFSOpen(files, name)
       IN IF o.err # NoErr THEN [err |-> o.err, kind |-> "nil", f |-> SynthDir]
          ELSE IF o.f.dir
          THEN [err |-> PathError("open", name, "EISDIR"), kind |-> "nil", f |-> SynthDir]
          ELSE [err |-> NoErr, kind |-> "file", f |-> files[name]]

\* Chown on the handle with uid and gid stored the wrong way round
openMapFileChownSwapped(files, name, uid, gid) ==
  IF files[name].sys
  THEN [files |-> [files EXCEPT ![name].uid = gid, ![name].gid = uid], err |-> NoErr]
  ELSE [files |-> files, err |-> BareError(ErrNotSupported)]

\* openMapFile.Chown
openMapFileChown(files, name, uid, gid) ==
  IF files[name].sys
  THEN [files |-> [files EXCEPT ![name].uid = uid, ![name].gid = gid], err |-> NoErr]
  ELSE [files |-> files, err |-> BareError(ErrNotSupported)]

\* openMapFile.Chmod: f.f.Mode = mode & fs.ModePerm
openMapFileChmod(files, name, mode) ==
  [files |-> [files EXCEPT ![name].perm = mode % (ModePerm + 1), ![name].dir = FALSE],
   err |-> NoErr]

\* openMapFile.Chtimes
openMapFileChtimes(files, name, atime, mtime) ==
  IF files[name].sys
  THEN [files |-> [files EXCEPT ![name].atime = atime, ![name].mtime = mtime],
        err |-> NoErr]
  ELSE [files |-> files, err |-> BareError(ErrNotSupported)]

\* TruncateFile.Truncate on an open regular file: changes the size of the file
fileTruncate(files, name, size) ==
  [files |-> [files EXCEPT ![name].size = size], err |-> NoErr]

\* MapFS.Mkdir
MapFSMkdir(files, name, perm) ==
  LET o == MapFSOpen(files, name)
  IN IF o.err = NoErr
     THEN [files |-> files, err |-> PathError("mkdir", name, ErrExist)]
     ELSE IF o.err.cause # ErrNotExist
     THEN [files |-> files, err |-> PathError("mkdir", name, o.err.cause)]
     ELSE [files |-> [p \in DOMAIN files \cup {name} |->
                        IF p = name THEN MapFile(TRUE, perm, 0, 0, 0, 0, 0, FALSE)
                        ELSE files[p]],
           err |-> NoErr]

\* ---------------------------------------------- the filesystem handed in
\* A call is made on e = [files, caps, fcaps, faults]: the MapFS store, the
\* capability interfaces the filesystem value satisfies, the capability
\* interfaces its regular-file handles satisfy, and the underlying steps that
\* fail in this call ("open", "method", "close").

Env(files, caps, fcaps, faults) ==
  [files |-> files, caps |-> caps, fcaps |-> fcaps, faults |-> faults]

\* one call of a method of the filesystem or of a file handle, and its result
Called(m, name, ret) == [m |-> m, name |-> name, ret |-> ret]

\* fsys.Open(name)
FsysOpen(e, name) ==
  IF "open" \in e.faults
  THEN [err |-> PathError("open", name, ErrPermission), kind |-> "nil", f |-> SynthDir]
  ELSE MapFSOpen(e.files, name)

\* fsys.OpenFile(name, flag, perm)
FsysOpenFile(e, name, flag) ==
  IF "open" \in e.faults
  THEN [err |-> PathError("open", name, ErrPermission), kind |-> "nil", f |-> SynthDir]
  ELSE MapFSOpenFile(e.files, name, flag)

\* the capability interfaces an opened handle satisfies: a mapDir has none
HandleCaps(e, o) == IF o.kind = "file" THEN e.fcaps ELSE {}

\* file.Close()
FileClose(e) == IF "close" \in e.faults THEN BareError(EIO) ELSE NoErr

\* a method of the filesystem or of a handle that fails without effect
Failed(e, op, name) ==
  [files |-> e.files, err |-> PathError(op, name, ErrPermission)]

\* file.Chown(uid, gid)
FileChown(e, name, uid, gid) ==
  IF "method" \in e.faults THEN Failed(e, "chown", name)
  ELSE openMapFileChown(e.files, name, uid, gid)

\* file.Chmod(mode)
FileChmod(e, name, mode) ==
  IF "method" \in e.faults THEN Failed(e, "chmod", name)
  ELSE openMapFileChmod(e.files, name, mode)

\* file.Chtimes(atime, mtime)
FileChtimes(e, name, atime, mtime) ==
  IF "method" \in e.faults THEN Failed(e, "chtimes", name)
  ELSE openMapFileChtimes(e.files, name, atime, mtime)

\* file.Truncate(size)
FileTruncate(e, name, size) ==
  IF "method" \in e.faults THEN Failed(e, "truncate", name)
  ELSE fileTruncate(e.files, name, size)

\* MapFS.Chown = Chown(fsOnly{fsys}, ...): open, file.Chown, close
MapFSChown(files, name, uid, gid) ==
  LET o == MapFSOpen(files, name)
  IN IF o.err # NoErr THEN [files |-> files, err |-> o.err]
     ELSE IF o.kind = "file" THEN openMapFileChown(files, name, uid, gid)
     ELSE [files |-> files, err |-> PathError("chown", name, ErrNotSupported)]

\* MapFS.Chmod = Chmod(fsOnly{fsys}, ...)
MapFSChmod(files, name, mode) ==
  LET o == MapFSOpen(files, name)
  IN IF o.err # NoErr THEN [files |-> files, err |-> o.err]
     ELSE IF o.kind = "file" THEN openMapFileChmod(files, name, mode)
     ELSE [files |-> files, err |-> PathError("chmod", name, ErrNotSupported)]

\* MapFS.Chtimes = Chtimes(fsOnly{fsys}, ...); a failed Open leaves a nil file
\* for the deferred safeClose of Chtimes
MapFSChtimes(files, name, atime, mtime) ==
  LET o == MapFSOpen(files, name)
  IN IF o.err # NoErr THEN [files |-> files, err |-> Panic]
     ELSE IF o.kind = "file" THEN openMapFileChtimes(files, name, atime, mtime)
     ELSE [files |-> files, err |-> PathError("chtimes", name, ErrNotSupported)]

\* dirFS.Truncate: validPath, then the size of the named regular file changes
dirFSTruncate(files, name, size) ==
  IF ~ValidPath(name)
  THEN [files |-> files, err |-> PathError("open", name, "ErrInvalid")]
  ELSE LET o == MapFSOpen(files, name)
       IN IF o.err # NoErr
          THEN [files |-> files, err |-> PathError("truncate", name, ErrNotExist)]
          ELSE IF o.kind = "file" THEN fileTruncate(files, name, size)
          ELSE [files |-> files, err |-> PathError("truncate", name, "EISDIR")]

\* fsys.Chown(name, uid, gid)
FsysChown(e, name, uid, gid) ==
  IF "method" \in e.faults THEN Failed(e, "chown", name)
  ELSE MapFSChown(e.files, name, uid, gid)

\* fsys.Chmod(name, mode)
FsysChmod(e, name, mode) ==
  IF "method" \in e.faults THEN Failed(e, "chmod", name)
  ELSE MapFSChmod(e.files, name, mode)

\* fsys.Chtimes(name, atime, mtime)
FsysChtimes(e, name, atime, mtime) ==
  IF "method" \in e.faults THEN Failed(e, "chtimes", name)
  ELSE MapFSChtimes(e.files, name, atime, mtime)

\* fsys.Truncate(name, size)
FsysTruncate(e, name, size) ==
  IF "method" \in e.faults THEN Failed(e, "truncate", name)
  ELSE dirFSTruncate(e.files, name, size)

\* ------------------------------------------------------ dispatch functions
\* Each returns [files, err, log]: the store afterwards, the error returned
\* (NoErr for nil, Panic when the call panics) and the underlying calls made.

Ret(files, err, log) == [files |-> files, err |-> err, log |-> log]

\* safeClose(closer, &err) with closeErr the result of closer.Close():
\* Close on a nil closer panics
safeClose(closer, err, closeErr) ==
  IF closer = "nil" THEN Panic
  ELSE IF err = NoErr THEN closeErr
  ELSE err

\* Chown, after the ChownFS probe failed: open the file and call Chown on it
ChownOpen(e, name, uid, gid) ==
  LET o == FsysOpen(e, name)
      opened == Called("FS.Open", name, o.err)
  IN IF o.err # NoErr THEN Ret(e.files, o.err, <<opened>>)
     ELSE LET has == "ChownFile" \in HandleCaps(e, o)
              r == IF has THEN FileChown(e, name, uid, gid)
                   ELSE [files |-> e.files,
                         err |-> PathError("chown", name, ErrNotSupported)]
              c == FileClose(e)
          IN Ret(r.files, safeClose(o.kind, r.err, c),
                 <<opened>>
                 \o (IF has THEN <<Called("File.Chown", name, r.err)>> ELSE <<>>)
                 \o <<Called("File.Close", name, c)>>)

\* Chown that goes to the file handle without probing the filesystem
ChownHandleOnly(e, name, uid, gid) == ChownOpen(e, name, uid, gid)

Chown(e, name, uid, gid) ==
  IF "ChownFS" \in e.caps
  THEN LET r == FsysChown(e, name, uid, gid)
       IN Ret(r.files, r.err, <<Called("FS.Chown", name, r.err)>>)
  ELSE ChownOpen(e, name, uid, gid)

\* fsys.Lchown(name, uid, gid): the store holds no symbolic links, so a
\* filesystem with Lchown changes the named file itself
FsysLchown(e, name, uid, gid) ==
  IF "method" \in e.faults THEN Failed(e, "lchown", name)
  ELSE MapFSChown(e.files, name, uid, gid)

Lchown(e, name, uid, gid) ==
  IF "LchownFS" \in e.caps
  THEN LET r == FsysLchown(e, name, uid, gid)
       IN Ret(r.files, r.err, <<Called("FS.Lchown", name, r.err)>>)
  ELSE Ret(e.files, PathError("chown", name, ErrNotSupported), <<>>)

\* Chmod on the handle that reports success when the handle has no Chmod
ChmodOpenSilent(e, name, mode) ==
  LET o == FsysOpen(e, name)
      opened == Called("FS.Open", name, o.err)
  IN IF o.err # NoErr THEN Ret(e.files, o.err, <<opened>>)
     ELSE LET has == "ChmodFile" \in HandleCaps(e, o)
              r == IF has THEN FileChmod(e, name, mode)
                   ELSE [files |-> e.files, err |-> NoErr]
              c == FileClose(e)
          IN Ret(r.files, r.err,
                 <<opened>>
                 \o (IF has THEN <<Called("File.Chmod", name, r.err)>> ELSE <<>>)
                 \o <<Called("File.Close", name, c)>>)

\* Chmod, after the ChmodFS probe failed; the handle is closed by
\* defer file.Close(), whose result is dropped
ChmodOpen(e, name, mode) ==
  LET o == FsysOpen(e, name)
      opened == Called("FS.Open", name, o.err)
  IN IF o.err # NoErr THEN Ret(e.files, o.err, <<opened>>)
     ELSE LET has == "ChmodFile" \in HandleCaps(e, o)
              r == IF has THEN FileChmod(e, name, mode)
                   ELSE [files |-> e.files,
                         err |-> PathError("chmod", name, ErrNotSupported)]
              c == FileClose(e)
          IN Ret(r.files, r.err,
                 <<opened>>
                 \o (IF has THEN <<Called("File.Chmod", name, r.err)>> ELSE <<>>)
                 \o <<Called("File.Close", name, c)>>)

Chmod(e, name, mode) ==
  IF "ChmodFS" \in e.caps
  THEN LET r == FsysChmod(e, name, mode)
       IN Ret(r.files, r.err, <<Called("FS.Chmod", name, r.err)>>)
  ELSE ChmodOpen(e, name, mode)

\* Chtimes, after the ChtimesFS probe failed; safeClose is deferred before the
\* error of Open is tested, so it also runs on the file a failed Open returned
ChtimesOpen(e, name, atime, mtime) ==
  LET o == FsysOpen(e, name)
      opened == Called("FS.Open", name, o.err)
      c == FileClose(e)
  IN IF o.err # NoErr
     THEN Ret(e.files, safeClose(o.kind, o.err, c),
              <<opened>>
              \o (IF o.kind = "nil" THEN <<>> ELSE <<Called("File.Close", name, c)>>))
     ELSE LET has == "ChtimesFile" \in HandleCaps(e, o)
              r == IF has THEN FileChtimes(e, name, atime, mtime)
                   ELSE [files |-> e.files,
                         err |-> PathError("chtimes", name, ErrNotSupported)]
          IN Ret(r.files, safeClose(o.kind, r.err, c),
                 <<opened>>
                 \o (IF has THEN <<Called("File.Chtimes", name, r.err)>> ELSE <<>>)
                 \o <<Called("File.Close", name, c)>>)

Chtimes(e, name, atime, mtime) ==
  IF "ChtimesFS" \in e.caps
  THEN LET r == FsysChtimes(e, name, atime, mtime)
       IN Ret(r.files, r.err, <<Called("FS.Chtimes", name, r.err)>>)
  ELSE ChtimesOpen(e, name, atime, mtime)

O_RDONLY == 0
O_WRONLY == 1

\* OpenFile: [err, kind, f, log]
OpenFile(e, name, flag) ==
  IF "OpenFileFS" \in e.caps
  THEN LET o == FsysOpenFile(e, name, flag)
       IN [err |-> o.err, kind |-> o.kind, f |-> o.f,
           log |-> <<Called("FS.OpenFile", name, o.err)>>]
  ELSE IF flag = O_RDONLY
  THEN LET o == FsysOpen(e, name)
       IN [err |-> o.err, kind |-> o.kind, f |-> o.f,
           log |-> <<Called("FS.Open", name, o.err)>>]
  ELSE [err |-> PathError("open", name, ErrUnsupported), kind |-> "nil",
        f |-> SynthDir, log |-> <<>>]

\* file.(WriteFile) where file is nil or has no Write method
ConversionPanic ==
  [kind |-> "panic", op |-> "", path |-> <<>>, new |-> <<>>,
   cause |-> "interface conversion"]

\* Create: OpenFile with os.O_RDWR|os.O_CREATE|os.O_TRUNC (2|64|512), and the
\* file it returns asserted to be a WriteFile whatever the error is.  The
\* handle MapFS.OpenFile returns with a flag set is an *openMapFile, which
\* has Write; a nil File makes the assertion panic.
Create(e, name) ==
  LET o == OpenFile(e, name, 578)
  IN IF o.kind = "file" THEN Ret(e.files, o.err, o.log)
     ELSE Ret(e.files, ConversionPanic, o.log)

\* Truncate on the handle that returns without closing a handle that has no
\* Truncate
TruncateOpenLeak(e, name, size) ==
  LET o == OpenFile(e, name, O_WRONLY)
  IN IF o.err # NoErr THEN Ret(e.files, o.err, o.log)
     ELSE IF "TruncateFile" \notin HandleCaps(e, o)
     THEN Ret(e.files, PathError("truncate", name, ErrUnsupported), o.log)
     ELSE LET r == FileTruncate(e, name, size)
              c == FileClose(e)
          IN Ret(r.files, safeClose(o.kind, r.err, c),
                 o.log \o <<Called("File.Truncate", name, r.err),
                            Called("File.Close", name, c)>>)

\* Truncate, after the TruncateFS probe failed
TruncateOpen(e, name, size) ==
  LET o == OpenFile(e, name, O_WRONLY)
  IN IF o.err # NoErr THEN Ret(e.files, o.err, o.log)
     ELSE LET has == "TruncateFile" \in HandleCaps(e, o)
              r == IF has THEN FileTruncate(e, name, size)
                   ELSE [files |-> e.files,
                         err |-> PathError("truncate", name, ErrUnsupported)]
              c == FileClose(e)
          IN Ret(r.files, safeClose(o.kind, r.err, c),
                 o.log
                 \o (IF has THEN <<Called("File.Truncate", name, r.err)>> ELSE <<>>)
                 \o <<Called("File.Close", name, c)>>)

Truncate(e, name, size) ==
  IF "TruncateFS" \in e.caps
  THEN LET r == FsysTruncate(e, name, size)
       IN Ret(r.files, r.err, <<Called("FS.Truncate", name, r.err)>>)
  ELSE TruncateOpen(e, name, size)

\* Stat(fsys, name) on a filesystem without a Stat method: Open, file.Stat,
\* Close.  [err, isDir, perm, log]
Stat(e, name) ==
  LET o == FsysOpen(e, name)
      opened == Called("FS.Open", name, o.err)
  IN IF o.err # NoErr
     THEN [err |-> o.err, isDir |-> FALSE, perm |-> 0, log |-> <<opened>>]
     ELSE [err |-> NoErr, isDir |-> o.f.dir, perm |-> o.f.perm,
           log |-> <<opened, Called("File.Close", name, NoErr)>>]

\* fsys.Mkdir(name, perm)
FsysMkdir(e, name, perm) ==
  IF "method" \in e.faults THEN Failed(e, "mkdir", name)
  ELSE MapFSMkdir(e.files, name, perm)

Mkdir(e, name, perm) ==
  IF "MkdirFS" \in e.caps
  THEN LET r == FsysMkdir(e, name, perm)
       IN Ret(r.files, r.err, <<Called("FS.Mkdir", name, r.err)>>)
  ELSE Ret(e.files, PathError("mkdir", name, ErrNotSupported), <<>>)

RECURSIVE SkipSeparators(_, _)
\* for i > 0 && os.IsPathSeparator(path[i-1]) { i-- }
SkipSeparators(path, i) ==
  IF i > 0 /\ path[i] = "/" THEN SkipSeparators(path, i - 1) ELSE i

RECURSIVE ScanElement(_, _)
\* for j > 0 && !os.IsPathSeparator(path[j-1]) { j-- }
ScanElement(path, j) ==
  IF j > 0 /\ path[j] # "/" THEN ScanElement(path, j - 1) ELSE j

\* What another user of the filesystem, making the same directories, does to
\* the store between the Stat and the Mkdir of a MkdirAll: nothing, or it
\* makes the directory MkdirAll is about to make, or it writes a file there.
Concurrent(e, files, path, perm) ==
  IF ~ValidPath(path) \/ MapFSOpen(files, path).err = NoErr THEN files
  ELSE IF "raced dir" \in e.faults THEN MapFSMkdir(files, path, perm).files
  ELSE IF "raced file" \in e.faults
  THEN [k \in DOMAIN files \cup {path} |-> IF k = path THEN HelloFile ELSE files[k]]
  ELSE files

RECURSIVE MkdirAll(_, _, _)

\* MkdirAll that returns the error of Mkdir without the second Stat
MkdirAllNoRecheck(e, path, perm) ==
  LET dir == Stat(e, path)
  IN IF dir.err = NoErr
     THEN IF dir.isDir THEN Ret(e.files, NoErr, dir.log)
          ELSE Ret(e.files, PathError("mkdir", path, ENOTDIR), dir.log)
     ELSE
     LET i == SkipSeparators(path, Len(path))
         j == ScanElement(path, i)
         parent == IF j > 1 THEN MkdirAll(e, SubSeq(path, 1, j - 1), perm)
                   ELSE Ret(e.files, NoErr, <<>>)
     IN IF parent.err # NoErr
        THEN Ret(parent.files, parent.err, dir.log \o parent.log)
        ELSE LET made == Mkdir([e EXCEPT !.files = Concurrent(e, parent.files, path, perm)],
                               path, perm)
             IN Ret(made.files, made.err, dir.log \o parent.log \o made.log)

\* MkdirAll that calls Mkdir for the path before it creates the parent
MkdirAllChildFirst(e, path, perm) ==
  LET dir == Stat(e, path)
  IN IF dir.err = NoErr
     THEN IF dir.isDir THEN Ret(e.files, NoErr, dir.log)
          ELSE Ret(e.files, PathError("mkdir", path, ENOTDIR), dir.log)
     ELSE
     LET i == SkipSeparators(path, Len(path))
         j == ScanElement(path, i)
         made == Mkdir(e, path, perm)
         parent == IF j > 1
                   THEN MkdirAll([e EXCEPT !.files = made.files],
                                 SubSeq(path, 1, j - 1), perm)
                   ELSE Ret(made.files, NoErr, <<>>)
     IN Ret(parent.files,
            IF made.err # NoErr THEN made.err ELSE parent.err,
            dir.log \o made.log \o parent.log)

\* MkdirAll that reports a directory that is already there as an error
MkdirAllExisting(e, path, perm) ==
  LET dir == Stat(e, path)
  IN IF dir.err = NoErr
     THEN IF dir.isDir THEN Ret(e.files, PathError("mkdir", path, ErrExist), dir.log)
          ELSE Ret(e.files, PathError("mkdir", path, ENOTDIR), dir.log)
     ELSE
     LET i == SkipSeparators(path, Len(path))
         j == ScanElement(path, i)
         parent == IF j > 1 THEN MkdirAll(e, SubSeq(path, 1, j - 1), perm)
                   ELSE Ret(e.files, NoErr, <<>>)
     IN IF parent.err # NoErr
        THEN Ret(parent.files, parent.err, dir.log \o parent.log)
        ELSE LET made == Mkdir([e EXCEPT !.files = parent.files], path, perm)
             IN Ret(made.files, made.err, dir.log \o parent.log \o made.log)

\* MkdirAll whose fast path takes whatever is at the path for a directory
MkdirAllAnyFile(e, path, perm) ==
  LET dir == Stat(e, path)
  IN IF dir.err = NoErr THEN Ret(e.files, NoErr, dir.log)
     ELSE
     LET i == SkipSeparators(path, Len(path))
         j == ScanElement(path, i)
         parent == IF j > 1 THEN MkdirAll(e, SubSeq(path, 1, j - 1), perm)
                   ELSE Ret(e.files, NoErr, <<>>)
     IN IF parent.err # NoErr
        THEN Ret(parent.files, parent.err, dir.log \o parent.log)
        ELSE LET made == Mkdir([e EXCEPT !.files = parent.files], path, perm)
                 dir1 == Stat([e EXCEPT !.files = made.files], path)
             IN IF made.err # NoErr
                THEN Ret(made.files,
                         IF dir1.err = NoErr /\ dir1.isDir THEN NoErr ELSE made.err,
                         dir.log \o parent.log \o made.log \o dir1.log)
                ELSE Ret(made.files, NoErr, dir.log \o parent.log \o made.log)

\* MkdirAll on a filesystem with Mkdir and without MkdirAll (based on
\* os.MkdirAll)
MkdirAllMkdir(e, path, perm) ==
  LET dir == Stat(e, path)
  IN IF dir.err = NoErr
     THEN IF dir.isDir THEN Ret(e.files, NoErr, dir.log)
          ELSE Ret(e.files, PathError("mkdir", path, ENOTDIR), dir.log)
     ELSE
     LET i == SkipSeparators(path, Len(path))
         j == ScanElement(path, i)
         parent == IF j > 1 THEN MkdirAll(e, SubSeq(path, 1, j - 1), perm)
                   ELSE Ret(e.files, NoErr, <<>>)
     IN IF parent.err # NoErr
        THEN Ret(parent.files, parent.err, dir.log \o parent.log)
        ELSE LET made == Mkdir([e EXCEPT !.files = Concurrent(e, parent.files, path, perm)],
                               path, perm)
                 dir1 == Stat([e EXCEPT !.files = made.files], path)
             IN IF made.err # NoErr
                THEN Ret(made.files,
                         IF dir1.err = NoErr /\ dir1.isDir THEN NoErr ELSE made.err,
                         dir.log \o parent.log \o made.log \o dir1.log)
                ELSE Ret(made.files, NoErr, dir.log \o parent.log \o made.log)

\* MapFS.MkdirAll = MkdirAll(mkdirOnly{fsys}, path, perm)
MapFSMkdirAll(files, path, perm) ==
  LET r == MkdirAll(Env(files, {"MkdirFS"}, {}, {}), path, perm)
  IN [files |-> r.files, err |-> r.err]

\* fsys.MkdirAll(path, perm)
FsysMkdirAll(e, path, perm) ==
  IF "method" \in e.faults THEN Failed(e, "mkdir", path)
  ELSE MapFSMkdirAll(e.files, path, perm)

MkdirAll(e, path, perm) ==
  IF "MkdirAllFS" \in e.caps
  THEN LET r == FsysMkdirAll(e, path, perm)
       IN Ret(r.files, r.err, <<Called("FS.MkdirAll", path, r.err)>>)
  ELSE IF "MkdirFS" \notin e.caps
  THEN Ret(e.files, PathError("mkdir", path, ErrNotSupported), <<>>)
  ELSE MkdirAllMkdir(e, path, perm)

\* MapFS.Remove; the error of the failed Stat is reported by its cause
MapFSRemove(files, name) ==
  LET o == MapFSOpen(files, name)
  IN IF o.err # NoErr
     THEN [files |-> files, err |-> PathError("remove", name, o.err.cause)]
     ELSE IF o.kind = "dir"
             /\ (HasChildren(files, name) \/ (name = <<".">> /\ DOMAIN files # {}))
     THEN [files |-> files, err |-> PathError("remove", name, "ENOTEMPTY")]
     ELSE [files |-> [p \in DOMAIN files \ {name} |-> files[p]], err |-> NoErr]

\* fsys.Remove(name)
FsysRemove(e, name) ==
  IF "method" \in e.faults THEN Failed(e, "remove", name)
  ELSE MapFSRemove(e.files, name)

Remove(e, name) ==
  IF "RemoveFS" \in e.caps
  THEN LET r == FsysRemove(e, name)
       IN Ret(r.files, r.err, <<Called("FS.Remove", name, r.err)>>)
  ELSE Ret(e.files, PathError("remove", name, ErrUnsupported), <<>>)

\* fsys.Lstat(name): the store holds no symbolic links, so Lstat is Stat
FsysLstat(e, name) ==
  IF "method" \in e.faults THEN Failed(e, "lstat", name)
  ELSE [files |-> e.files, err |-> MapFSOpen(e.files, name).err]

Lstat(e, name) ==
  IF "LstatFS" \in e.caps
  THEN LET r == FsysLstat(e, name)
       IN Ret(r.files, r.err, <<Called("FS.Lstat", name, r.err)>>)
  ELSE Ret(e.files, PathError("lstat", name, ErrUnsupported), <<>>)

\* fsys.Readlink(name): the store holds no symbolic links
FsysReadlink(e, name) ==
  IF "method" \in e.faults THEN Failed(e, "readlink", name)
  ELSE [files |-> e.files,
        err |-> IF MapFSOpen(e.files, name).err # NoErr
                THEN PathError("readlink", name, ErrNotExist)
                ELSE PathError("readlink", name, "EINVAL")]

Readlink(e, name) ==
  IF "ReadlinkFS" \in e.caps
  THEN LET r == FsysReadlink(e, name)
       IN Ret(r.files, r.err, <<Called("FS.Readlink", name, r.err)>>)
  ELSE Ret(e.files, PathError("readlink", name, ErrNotSupported), <<>>)

\* fsys.Rename / fsys.Symlink / fsys.Link as dirFS has them: validPath on
\* both names, then the os call.  What the os call does to the tree is not
\* part of the store modelled here (MapFS has none of the three).
FsysLinkOp(e, op, oldname, newname) ==
  IF "method" \in e.faults
  THEN [files |-> e.files, err |-> LinkError(op, oldname, newname, ErrPermission)]
  ELSE IF ~ValidPath(oldname)
  THEN [files |-> e.files, err |-> PathError("open", oldname, "ErrInvalid")]
  ELSE IF ~ValidPath(newname)
  THEN [files |-> e.files, err |-> PathError("open", newname, "ErrInvalid")]
  ELSE [files |-> e.files, err |-> NoErr]

Rename(e, oldpath, newpath) ==
  IF "RenameFS" \in e.caps
  THEN LET r == FsysLinkOp(e, "rename", oldpath, newpath)
       IN Ret(r.files, r.err, <<Called("FS.Rename", oldpath, r.err)>>)
  ELSE Ret(e.files, LinkError("rename", oldpath, newpath, ErrNotSupported), <<>>)

Symlink(e, oldname, newname) ==
  IF "SymlinkFS" \in e.caps
  THEN LET r == FsysLinkOp(e, "symlink", oldname, newname)
       IN Ret(r.files, r.err, <<Called("FS.Symlink", oldname, r.err)>>)
  ELSE Ret(e.files, LinkError("symlink", oldname, newname, ErrUnsupported), <<>>)

Link(e, oldname, newname) ==
  IF "LinkFS" \in e.caps
  THEN LET r == FsysLinkOp(e, "link", oldname, newname)
       IN Ret(r.files, r.err, <<Called("FS.Link", oldname, r.err)>>)
  ELSE Ret(e.files, LinkError("link", oldname, newname, ErrUnsupported), <<>>)

\* ------------------------------------------------------------- RemoveAll

\* Deepest nesting of RemoveAll calls before the goroutine stack is taken to
\* be exhausted; every tree of the model is shallower.
MaxDepth == 6

\* the call did not return: unbounded recursion exhausted the stack
StackOverflow ==
  [kind |-> "fatal", op |-> "", path |-> <<>>, new |-> <<>>, cause |-> "stack overflow"]

RECURSIVE SplitFrom(_, _)
\* the elements of name[i..] between the "/"s, as strings.Split has them
SplitFrom(name, i) ==
  LET k == IndexFrom(name, "/", i)
  IN IF k > Len(name) THEN <<SubSeq(name, i, Len(name))>>
     ELSE <<SubSeq(name, i, k - 1)>> \o SplitFrom(name, k + 1)

RECURSIVE CleanElems(_, _, _, _)
\* path.Clean on the elements: "" and "." are dropped, ".." takes back the
\* element before it (nothing if rooted and none is left)
CleanElems(elems, i, out, rooted) ==
  IF i > Len(elems) THEN out
  ELSE LET el == elems[i]
       IN IF el = <<>> \/ el = <<".">>
          THEN CleanElems(elems, i + 1, out, rooted)
          ELSE IF el = <<".", ".">>
          THEN IF Len(out) > 0 /\ out[Len(out)] # <<".", ".">>
               THEN CleanElems(elems, i + 1, SubSeq(out, 1, Len(out) - 1), rooted)
               ELSE IF rooted THEN CleanElems(elems, i + 1, out, rooted)
               ELSE CleanElems(elems, i + 1, Append(out, el), rooted)
          ELSE CleanElems(elems, i + 1, Append(out, el), rooted)

\* path.Clean
Clean(name) ==
  LET rooted == Len(name) > 0 /\ name[1] = "/"
      out == CleanElems(SplitFrom(name, 1), 1, <<>>, rooted)
  IN IF out = <<>> THEN (IF rooted THEN <<"/">> ELSE <<".">>)
     ELSE (IF rooted THEN <<"/">> ELSE <<>>) \o Join(out)

\* a Join that leaves the directory out
pathJoinName(dir, name) == Clean(name)

\* path.Join(dir, name): empty arguments are ignored, the rest is cleaned
pathJoin(dir, name) ==
  IF dir = <<>> /\ name = <<>> THEN <<>>
  ELSE IF dir = <<>> THEN Clean(name)
  ELSE IF name = <<>> THEN Clean(dir)
  ELSE Clean(dir \o <<"/">> \o name)

\* the byte order of the characters of a name
CharOrd(c) == CASE c = "." -> 46 [] c = "/" -> 47 [] c = "a" -> 97

RECURSIVE Less(_, _)
\* s < t as Go compares strings
Less(s, t) ==
  IF t = <<>> THEN FALSE
  ELSE IF s = <<>> THEN TRUE
  ELSE IF s[1] # t[1] THEN CharOrd(s[1]) < CharOrd(t[1])
  ELSE Less(Tail(s), Tail(t))

\* the directory entries MapFS.Open collects for the directory name: one for
\* each key directly below it, and a synthesized directory for each first
\* element of a key further below
MapFSEntries(files, name) ==
  LET prefix == IF name = <<".">> THEN <<>> ELSE name \o <<"/">>
      below == {k \in DOMAIN files : HasPrefix(k, prefix)}
      felem(k) == SubSeq(k, Len(prefix) + 1, Len(k))
      first(k) == SubSeq(felem(k), 1, IndexFrom(felem(k), "/", 1) - 1)
      list == {k \in below : IndexFrom(felem(k), "/", 1) > Len(felem(k))}
      need == {first(k) : k \in below \ list} \ {felem(k) : k \in list}
  IN {[name |-> felem(k), isDir |-> files[k].dir] : k \in list}
       \cup {[name |-> n, isDir |-> TRUE] : n \in need}

RECURSIVE SortEntries(_)
\* sort.Slice(list, func(i, j int) bool { return list[i].name < list[j].name })
SortEntries(entries) ==
  IF entries = {} THEN <<>>
  ELSE LET min == CHOOSE x \in entries :
                    \A y \in entries \ {x} : Less(x.name, y.name)
       IN <<min>> \o SortEntries(entries \ {min})

\* ReadDir(fsys, name) on a filesystem without a ReadDir method: Open, the
\* handle's ReadDir(-1), Close.  [err, entries, log]
ReadDir(e, name) ==
  LET o == FsysOpen(e, name)
      opened == Called("FS.Open", name, o.err)
      closed == Called("File.Close", name, NoErr)
  IN IF o.err # NoErr
     THEN [err |-> o.err, entries |-> <<>>, log |-> <<opened>>]
     ELSE IF o.kind # "dir"
     THEN [err |-> PathError("readdir", name, "not implemented"),
           entries |-> <<>>, log |-> <<opened, closed>>]
     ELSE [err |-> NoErr, entries |-> SortEntries(MapFSEntries(e.files, name)),
           log |-> <<opened, Called("File.ReadDir", name, NoErr), closed>>]

\* dirFS.RemoveAll: validPath, then os.RemoveAll, which refuses a path that
\* ends in "." and takes a path that does not exist for removed
dirFSRemoveAll(files, path) ==
  IF ~ValidPath(path)
  THEN [files |-> files, err |-> PathError("open", path, "ErrInvalid")]
  ELSE IF path = <<".">>
  THEN [files |-> files, err |-> PathError("RemoveAll", path, "EINVAL")]
  ELSE [files |-> [k \in {q \in DOMAIN files :
                            q # path /\ ~HasPrefix(q, path \o <<"/">>)} |-> files[k]],
        err |-> NoErr]

\* fsys.RemoveAll(path)
FsysRemoveAll(e, path) ==
  IF "method" \in e.faults THEN Failed(e, "RemoveAll", path)
  ELSE dirFSRemoveAll(e.files, path)

\* the loop over the entries that removes none of them
RemoveEntriesSkip(e, removePath, entries, i, depth) == Ret(e.files, NoErr, <<>>)

RECURSIVE RemoveAll(_, _, _)

RECURSIVE RemoveEntries(_, _, _, _, _)

\* the loop over the entries that goes on to the next entry after a failure
\* and returns the first error at the end
RemoveEntriesContinue(e, removePath, entries, i, depth) ==
  IF i > Len(entries) THEN Ret(e.files, NoErr, <<>>)
  ELSE LET fi == entries[i]
           child == pathJoin(removePath, fi.name)
           r == IF fi.isDir THEN RemoveAll(e, child, depth + 1)
                ELSE Remove(e, child)
           rest == RemoveEntries([e EXCEPT !.files = r.files],
                                 removePath, entries, i + 1, depth)
       IN Ret(rest.files, IF r.err # NoErr THEN r.err ELSE rest.err,
              r.log \o rest.log)

\* for _, fi := range files: the entries from the i-th on
RemoveEntries(e, removePath, entries, i, depth) ==
  IF i > Len(entries) THEN Ret(e.files, NoErr, <<>>)
  ELSE LET fi == entries[i]
           child == pathJoin(removePath, fi.name)
           r == IF fi.isDir THEN RemoveAll(e, child, depth + 1)
                ELSE Remove(e, child)
       IN IF r.err # NoErr THEN r
          ELSE LET rest == RemoveEntries([e EXCEPT !.files = r.files],
                                         removePath, entries, i + 1, depth)
               IN Ret(rest.files, rest.err, r.log \o rest.log)

\* RemoveAll that takes a path that does not exist for removed
RemoveAllSilent(e, removePath, depth) ==
  LET fi == Stat(e, removePath)
  IN IF fi.err # NoErr THEN Ret(e.files, NoErr, fi.log)
     ELSE LET r == Remove(e, removePath)
          IN Ret(r.files, r.err, fi.log \o r.log)

\* RemoveAll on a filesystem without RemoveAll
RemoveAllRemove(e, removePath, depth) ==
  IF depth > MaxDepth THEN Ret(e.files, StackOverflow, <<>>)
  ELSE
  LET fi == Stat(e, removePath)
  IN IF fi.err # NoErr THEN Ret(e.files, fi.err, fi.log)
     ELSE IF ~fi.isDir
     THEN LET r == Remove(e, removePath)
          IN Ret(r.files, r.err, fi.log \o r.log)
     ELSE
     LET rd == ReadDir(e, removePath)
     IN IF rd.err # NoErr THEN Ret(e.files, rd.err, fi.log \o rd.log)
        ELSE
        LET kids == RemoveEntries(e, removePath, rd.entries, 1, depth)
        IN IF kids.err # NoErr
           THEN Ret(kids.files, kids.err, fi.log \o rd.log \o kids.log)
           ELSE LET r == Remove([e EXCEPT !.files = kids.files], removePath)
                IN Ret(r.files, r.err, fi.log \o rd.log \o kids.log \o r.log)

RemoveAll(e, removePath, depth) ==
  IF "RemoveAllFS" \in e.caps
  THEN LET r == FsysRemoveAll(e, removePath)
       IN Ret(r.files, r.err, <<Called("FS.RemoveAll", removePath, r.err)>>)
  ELSE RemoveAllRemove(e, removePath, depth)

\* --------------------------------------------------------------- sub-views

ErrInvalid == "ErrInvalid"

\* errors.New("invalid name")
InvalidName == "invalid name"

\* ReadFile(fsys, name) on a filesystem without a ReadFile method: Open, Read
\* to the end, Close; a mapDir refuses Read.  [err, size, log]
ReadFile(e, name) ==
  LET o == FsysOpen(e, name)
      opened == Called("FS.Open", name, o.err)
      closed == Called("File.Close", name, NoErr)
  IN IF o.err # NoErr
     THEN [err |-> o.err, size |-> 0, log |-> <<opened>>]
     ELSE IF o.kind = "dir"
     THEN [err |-> PathError("read", name, ErrInvalid), size |-> 0,
           log |-> <<opened, Called("File.Read", name, PathError("read", name, ErrInvalid)),
                     closed>>]
     ELSE [err |-> NoErr, size |-> o.f.size,
           log |-> <<opened, Called("File.Read", name, NoErr), closed>>]

\* subFS.fullName that hands the name on as it came
fullNameUnjoined(dir, op, name) ==
  IF ~ValidPath(name)
  THEN [full |-> <<>>, err |-> PathError(op, name, InvalidName)]
  ELSE [full |-> name, err |-> NoErr]

\* subFS.fullName
fullName(dir, op, name) ==
  IF ~ValidPath(name)
  THEN [full |-> <<>>, err |-> PathError(op, name, InvalidName)]
  ELSE [full |-> pathJoin(dir, name), err |-> NoErr]

\* subFS.shorten that leaves the "/" after dir at the head of the suffix
shortenSlash(dir, name) ==
  IF name = dir THEN [rel |-> <<".">>, ok |-> TRUE]
  ELSE IF /\ Len(name) >= Len(dir) + 2
          /\ name[Len(dir) + 1] = "/"
          /\ SubSeq(name, 1, Len(dir)) = dir
  THEN [rel |-> SubSeq(name, Len(dir) + 1, Len(name)), ok |-> TRUE]
  ELSE [rel |-> <<>>, ok |-> FALSE]

\* subFS.shorten
shorten(dir, name) ==
  IF name = dir THEN [rel |-> <<".">>, ok |-> TRUE]
  ELSE IF /\ Len(name) >= Len(dir) + 2
          /\ name[Len(dir) + 1] = "/"
          /\ SubSeq(name, 1, Len(dir)) = dir
  THEN [rel |-> SubSeq(name, Len(dir) + 2, Len(name)), ok |-> TRUE]
  ELSE [rel |-> <<>>, ok |-> FALSE]

\* subFS.fixErr that leaves the error as the parent returned it
fixErrNot(dir, err) == err

\* subFS.fixErr: only a *PathError is shortened
fixErr(dir, err) ==
  IF err.kind = "PathError" /\ shorten(dir, err.path).ok
  THEN [err EXCEPT !.path = shorten(dir, err.path).rel]
  ELSE err

\* The result of a call through a sub-view: the store, the error, the calls
\* made on the parent, the paths handed to the parent, the error the parent
\* returned, and what the call returns besides the error.
SubRet(fs, e, l, fwd, perr, res) ==
  [files |-> fs, err |-> e, log |-> l, fwd |-> fwd, perr |-> perr, res |-> res]

\* the operations of a sub-view that take two paths
LinkOps == {"Rename", "Symlink", "Link"}

\* the operation name each method of subFS hands to fullName
SubOpName(op) ==
  CASE op = "Open" -> "open"
    [] op = "Stat" -> "stat"
    [] op = "Lstat" -> "lstat"
    [] op = "ReadDir" -> "read"
    [] op = "ReadFile" -> "read"
    [] op = "OpenFile" -> "open"
    [] op = "Chmod" -> "chmod"
    [] op = "Chown" -> "chown"
    [] op = "Lchown" -> "lchown"
    [] op = "Chtimes" -> "chtimes"
    [] op = "Mkdir" -> "mkdir"
    [] op = "MkdirAll" -> "mkdir"
    [] op = "Readlink" -> "readlink"
    [] op = "Remove" -> "remove"
    [] op = "RemoveAll" -> "remove"
    [] op = "Truncate" -> "truncate"
    [] op = "Rename" -> "rename"
    [] op = "Symlink" -> "symlink"
    [] op = "Link" -> "link"

\* what a dispatch function that returns only an error gives a sub-view:
\* the paths fwd were handed to the parent, which answered r
Forwarded(r, fwd) ==
  CHOOSE s \in {SubRet(v.files, v.err, v.log, fwd, v.err, 0) : v \in {r}} : TRUE

\* f.fsys.Open(full)
ParentOpen(e, name) ==
  LET o == FsysOpen(e, name)
  IN SubRet(e.files, o.err, <<Called("FS.Open", name, o.err)>>,
            <<name>>, o.err, <<o.kind, o.f>>)

\* Stat(f.fsys, full)
ParentStat(e, name) ==
  LET r == Stat(e, name)
  IN SubRet(e.files, r.err, r.log, <<name>>, r.err, <<r.isDir, r.perm>>)

\* ReadDir(f.fsys, full)
ParentReadDir(e, name) ==
  LET r == ReadDir(e, name)
  IN SubRet(e.files, r.err, r.log, <<name>>, r.err, r.entries)

\* ReadFile(f.fsys, full)
ParentReadFile(e, name) ==
  LET r == ReadFile(e, name)
  IN SubRet(e.files, r.err, r.log, <<name>>, r.err, r.size)

\* OpenFile(f.fsys, full, flag, perm)
ParentOpenFile(e, name, flag) ==
  LET o == OpenFile(e, name, flag)
  IN SubRet(e.files, o.err, o.log, <<name>>, o.err, <<o.kind, o.f>>)

\* what a method of subFS calls on its fsys when that is the parent itself:
\* f.fsys.Open for Open, the dispatch function for every other operation
ParentOp(e, op, name, new, a1, a2) ==
  CASE op = "Open" -> ParentOpen(e, name)
    [] op = "Stat" -> ParentStat(e, name)
    [] op = "Lstat" -> Forwarded(Lstat(e, name), <<name>>)
    [] op = "ReadDir" -> ParentReadDir(e, name)
    [] op = "ReadFile" -> ParentReadFile(e, name)
    [] op = "OpenFile" -> ParentOpenFile(e, name, a1)
    [] op = "Chmod" -> Forwarded(Chmod(e, name, a1), <<name>>)
    [] op = "Chown" -> Forwarded(Chown(e, name, a1, a2), <<name>>)
    [] op = "Lchown" -> Forwarded(Lchown(e, name, a1, a2), <<name>>)
    [] op = "Chtimes" -> Forwarded(Chtimes(e, name, a1, a2), <<name>>)
    [] op = "Mkdir" -> Forwarded(Mkdir(e, name, a1), <<name>>)
    [] op = "MkdirAll" -> Forwarded(MkdirAll(e, name, a1), <<name>>)
    [] op = "Readlink" -> Forwarded(Readlink(e, name), <<name>>)
    [] op = "Remove" -> Forwarded(Remove(e, name), <<name>>)
    [] op = "RemoveAll" -> Forwarded(RemoveAll(e, name, 0), <<name>>)
    [] op = "Truncate" -> Forwarded(Truncate(e, name, a1), <<name>>)
    [] op = "Rename" -> Forwarded(Rename(e, name, new), <<name, new>>)
    [] op = "Symlink" -> Forwarded(Symlink(e, name, new), <<name, new>>)
    [] op = "Link" -> Forwarded(Link(e, name, new), <<name, new>>)

RECURSIVE SubFull(_, _, _, _)
\* The paths the views Sub(...Sub(Sub(P, dirs[1]), dirs[2])...) hand on, down
\* to P: each view, from the outermost in, calls fullName on the path (and,
\* in linkAction, on the new path) and returns fullName's error itself.  A
\* subFS has every capability method, so the dispatch function the outer view
\* calls on an inner view calls the inner view's method.
SubFull(dirs, op, name, new) ==
  IF dirs = <<>> THEN [full |-> name, newFull |-> new, err |-> NoErr]
  ELSE
  LET dir == dirs[Len(dirs)]
      inner == SubSeq(dirs, 1, Len(dirs) - 1)
      full == fullName(dir, SubOpName(op), name)
      newFull == IF op \in LinkOps THEN fullName(dir, SubOpName(op), new)
                 ELSE [full |-> new, err |-> NoErr]
  IN IF full.err # NoErr
     THEN [full |-> <<>>, newFull |-> <<>>, err |-> full.err]
     ELSE IF newFull.err # NoErr
     THEN [full |-> <<>>, newFull |-> <<>>, err |-> newFull.err]
     ELSE SubFull(inner, op, full.full, newFull.full)

RECURSIVE SubFixErr(_, _, _)
\* The error of P as the views hand it back: each view, from the innermost
\* out, returns f.fixErr(err); Readlink returns err as it is.
SubFixErr(dirs, op, err) ==
  IF dirs = <<>> THEN err
  ELSE LET inner == SubFixErr(SubSeq(dirs, 1, Len(dirs) - 1), op, err)
       IN IF op = "Readlink" THEN inner ELSE fixErr(dirs[Len(dirs)], inner)

\* The method op of the sub-view Sub(...Sub(Sub(P, dirs[1]), dirs[2])...):
\* subFS.Open, Stat, ..., pathAction, permAction, linkAction, where fwd is
\* SubFull of the call's paths and parent is what the innermost view's call
\* on P with the paths of fwd gives.
SubApply(dirs, files, op, fwd, parent) ==
  IF fwd.err # NoErr THEN SubRet(files, fwd.err, <<>>, <<>>, NoErr, 0)
  ELSE [parent EXCEPT !.err = SubFixErr(dirs, op, @)]

\* Sub(fsys, dir): "" and "." give fsys itself, an invalid dir is refused
Sub(dirs, dir) ==
  IF dir = <<>> \/ dir = <<".">> THEN [dirs |-> dirs, err |-> NoErr]
  ELSE IF ~ValidPath(dir)
  THEN [dirs |-> dirs, err |-> PathError("sub", dir, InvalidName)]
  ELSE [dirs |-> Append(dirs, dir), err |-> NoErr]

\* -------------------------------------------------------------------- Glob

\* Longest pattern handed to Glob
MaxPatternLen == 2

\* the characters of patterns: those of names, "*" and "["
GlobChars == Chars \cup {"*", "["}

Patterns == UNION {[1..k -> GlobChars] : k \in 0..MaxPatternLen}

ErrBadPattern == "ErrBadPattern"

\* path.Match(pattern, "") returns ErrBadPattern.  No pattern over GlobChars
\* closes a character class or holds an escape, so the malformed ones are
\* those that open a class.
BadPattern(pattern) == \E i \in DOMAIN pattern : pattern[i] = "["

\* errors.New("invalid result from inner fsys Glob: " + name + " not in " + f.dir)
InvalidResult(named, dir) ==
  BareError(<<"invalid result from inner fsys Glob: ", named, " not in ", dir>>)

RECURSIVE GlobShorten(_, _, _)
\* for i, name := range list: the results from the i-th on.  The name the
\* error is made of is the one shorten returned, which is "" when ok is false.
GlobShorten(dir, list, i) ==
  IF i > Len(list) THEN [list |-> <<>>, err |-> NoErr]
  ELSE LET short == shorten(dir, list[i])
       IN IF ~short.ok
          THEN [list |-> <<>>, err |-> InvalidResult(short.rel, dir)]
          ELSE LET rest == GlobShorten(dir, list, i + 1)
               IN IF rest.err # NoErr THEN rest
                  ELSE [list |-> <<short.rel>> \o rest.list, err |-> NoErr]

\* full := f.dir + "/" + pattern
subFSGlobFull(dir, pattern) == dir \o <<"/">> \o pattern

RECURSIVE subFSGlob(_, _, _, _)
\* Glob of the sub-view Sub(...Sub(Sub(P, dirs[1]), dirs[2])...), where P has
\* a Glob method that returns (list, perr) whatever it is given: Glob(f.fsys,
\* full) on a view is the view's Glob, on P is P.Glob.
\* [list, err, fwd]: the results, the error and the patterns handed to P.
subFSGlob(dirs, pattern, list, perr) ==
  IF dirs = <<>> THEN [list |-> list, err |-> perr, fwd |-> <<pattern>>]
  ELSE
  LET dir == dirs[Len(dirs)]
      inner == SubSeq(dirs, 1, Len(dirs) - 1)
  IN IF BadPattern(pattern)
     THEN [list |-> <<>>, err |-> BareError(ErrBadPattern), fwd |-> <<>>]
     ELSE IF pattern = <<".">>
     THEN [list |-> <<(<<".">>)>>, err |-> NoErr, fwd |-> <<>>]
     ELSE LET r == subFSGlob(inner, subFSGlobFull(dir, pattern), list, perr)
              short == GlobShorten(dir, r.list, 1)
          IN IF short.err # NoErr
             THEN [list |-> <<>>, err |-> short.err, fwd |-> r.fwd]
             ELSE [list |-> short.list, err |-> fixErr(dir, r.err), fwd |-> r.fwd]

\* ------------------------------------------------------------------ state

VARIABLES
  files,  \* the MapFS store
  pre,    \* the store before the last call
  name,   \* the path name the calls are made on
  call,   \* the last call: [op, new, a1, a2, caps, fcaps, faults]
  err,    \* the error the last call returned
  log     \* the calls the last call made on the filesystem and its handles

vars == <<files, pre, name, call, err, log>>

NoCall == [op |-> "none", new |-> <<>>, a1 |-> 0, a2 |-> 0,
           caps |-> {}, fcaps |-> {}, faults |-> {}]

\* a directory as MapFS.Mkdir("a", 0775) leaves it
MadeDirFS == [p \in {<<"a">>} |-> MapFile(TRUE, 509, 0, 0, 0, 0, 0, FALSE)]

InitFS == {EmptyFS, TestFS, SubdirFS, MadeDirFS}

InitWith(names) ==
  /\ files \in InitFS
  /\ pre = files
  /\ name \in names
  /\ call = NoCall
  /\ err = NoErr
  /\ log = <<>>

\* the call op(name, a1, a2) on Env(files, caps, fcaps, faults) returned r
Returned(op, new, a1, a2, e, r) ==
  /\ pre' = files
  /\ files' = r.files
  /\ call' = [op |-> op, new |-> new, a1 |-> a1, a2 |-> a2,
              caps |-> e.caps, fcaps |-> e.fcaps, faults |-> e.faults]
  /\ err' = r.err
  /\ log' = r.log
  /\ UNCHANGED name

Faults == SUBSET {"open", "method", "close"}
MethodFaults == SUBSET {"method"}

Owners == {<<2, 3>>, <<3, 2>>}
Modes == {511, 292}
Times == {<<1, 2>>, <<2, 1>>}
Sizes == {0, 100}
Perms == {509, 493}

\* ---------------------------------------------------------------- actions

ChownCall ==
  \E o \in Owners, caps \in SUBSET {"ChownFS"}, fcaps \in SUBSET {"ChownFile"},
     faults \in Faults :
    LET e == Env(files, caps, fcaps, faults)
    IN Returned("Chown", <<>>, o[1], o[2], e, Chown(e, name, o[1], o[2]))

LchownCall ==
  \E o \in Owners, caps \in SUBSET {"LchownFS"}, faults \in MethodFaults :
    LET e == Env(files, caps, {}, faults)
    IN Returned("Lchown", <<>>, o[1], o[2], e, Lchown(e, name, o[1], o[2]))

ChmodCall ==
  \E m \in Modes, caps \in SUBSET {"ChmodFS"}, fcaps \in SUBSET {"ChmodFile"},
     faults \in Faults :
    LET e == Env(files, caps, fcaps, faults)
    IN Returned("Chmod", <<>>, m, 0, e, Chmod(e, name, m))

ChtimesCall ==
  \E t \in Times, caps \in SUBSET {"ChtimesFS"}, fcaps \in SUBSET {"ChtimesFile"},
     faults \in Faults :
    LET e == Env(files, caps, fcaps, faults)
    IN Returned("Chtimes", <<>>, t[1], t[2], e, Chtimes(e, name, t[1], t[2]))

TruncateCall ==
  \E size \in Sizes, caps \in SUBSET {"TruncateFS", "OpenFileFS"},
     fcaps \in SUBSET {"TruncateFile"}, faults \in Faults :
    LET e == Env(files, caps, fcaps, faults)
    IN Returned("Truncate", <<>>, size, 0, e, Truncate(e, name, size))

CreateCall ==
  \E caps \in SUBSET {"OpenFileFS"}, faults \in SUBSET {"open"} :
    LET e == Env(files, caps, {}, faults)
    IN Returned("Create", <<>>, 0, 0, e, Create(e, name))

OpenFileCall ==
  \E flag \in {O_RDONLY, O_WRONLY}, caps \in SUBSET {"OpenFileFS"},
     faults \in SUBSET {"open"} :
    LET e == Env(files, caps, {}, faults)
        o == OpenFile(e, name, flag)
    IN Returned("OpenFile", <<>>, flag, 0, e, Ret(files, o.err, o.log))

MkdirCall ==
  \E perm \in Perms, caps \in SUBSET {"MkdirFS"}, faults \in MethodFaults :
    LET e == Env(files, caps, {}, faults)
    IN Returned("Mkdir", <<>>, perm, 0, e, Mkdir(e, name, perm))

\* Mkdir of the filesystem fails, or another user makes the directory or
\* writes a file at the path before the Mkdir of MkdirAll
RaceFaults == MethodFaults \cup {{"raced dir"}, {"raced file"}, {"method", "raced dir"}}

MkdirAllCall ==
  \E perm \in Perms, caps \in SUBSET {"MkdirFS", "MkdirAllFS"},
     faults \in RaceFaults :
    LET e == Env(files, caps, {}, faults)
    IN Returned("MkdirAll", <<>>, perm, 0, e, MkdirAll(e, name, perm))

RemoveCall ==
  \E caps \in SUBSET {"RemoveFS"}, faults \in MethodFaults :
    LET e == Env(files, caps, {}, faults)
    IN Returned("Remove", <<>>, 0, 0, e, Remove(e, name))

LstatCall ==
  \E caps \in SUBSET {"LstatFS"}, faults \in MethodFaults :
    LET e == Env(files, caps, {}, faults)
    IN Returned("Lstat", <<>>, 0, 0, e, Lstat(e, name))

ReadlinkCall ==
  \E caps \in SUBSET {"ReadlinkFS"}, faults \in MethodFaults :
    LET e == Env(files, caps, {}, faults)
    IN Returned("Readlink", <<>>, 0, 0, e, Readlink(e, name))

RenameCall ==
  \E new \in Strs(1), caps \in SUBSET {"RenameFS"}, faults \in MethodFaults :
    LET e == Env(files, caps, {}, faults)
    IN Returned("Rename", new, 0, 0, e, Rename(e, name, new))

SymlinkCall ==
  \E new \in Strs(1), caps \in SUBSET {"SymlinkFS"}, faults \in MethodFaults :
    LET e == Env(files, caps, {}, faults)
    IN Returned("Symlink", new, 0, 0, e, Symlink(e, name, new))

LinkCall ==
  \E new \in Strs(1), caps \in SUBSET {"LinkFS"}, faults \in MethodFaults :
    LET e == Env(files, caps, {}, faults)
    IN Returned("Link", new, 0, 0, e, Link(e, name, new))

\* One call of a dispatch function on a filesystem built for the purpose.
Init == InitWith(Strs(MaxNameLen))

Next ==
  \/ call = NoCall /\ ChownCall
  \/ call = NoCall /\ LchownCall
  \/ call = NoCall /\ ChmodCall
  \/ call = NoCall /\ ChtimesCall
  \/ call = NoCall /\ TruncateCall
  \/ call = NoCall /\ OpenFileCall
  \/ call = NoCall /\ CreateCall
  \/ call = NoCall /\ MkdirCall
  \/ call = NoCall /\ RemoveCall
  \/ call = NoCall /\ LstatCall
  \/ call = NoCall /\ ReadlinkCall
  \/ call = NoCall /\ RenameCall
  \/ call = NoCall /\ SymlinkCall
  \/ call = NoCall /\ LinkCall

Spec == Init /\ [][Next]_vars

\* The path of TestMkdirAll, "foo/bar/baz/.", with every name written "a".
TrailingDot == <<"a", "/", "a", "/", "a", "/", ".">>

\* Calls of Mkdir and MkdirAll, one after the other, on one path name.
TreeInit == InitWith(Joined(MaxElems) \cup {TrailingDot})

TreeNext == MkdirCall \/ MkdirAllCall

TreeSpec == TreeInit /\ [][TreeNext]_vars

\* dirName of TestRemoveAll: the first element of the path subDir that
\* MkdirAll is called on
DirName(subDir) == SubSeq(subDir, 1, IndexFrom(subDir, "/", 1) - 1)

\* RemoveAll(fsys, dirName) after MkdirAll(fsys, subDir, perm); the path
\* removed is kept in call.new
RemoveAllDirCall ==
  \E caps \in SUBSET {"RemoveFS", "RemoveAllFS"}, faults \in MethodFaults :
    LET e == Env(files, caps, {}, faults)
    IN Returned("RemoveAll", DirName(name), 0, 0, e, RemoveAll(e, DirName(name), 0))

\* Calls of MkdirAll on a path and of RemoveAll on its first element, one
\* after the other, as TestRemoveAll makes them.
MakeRemoveNext == MkdirAllCall \/ RemoveAllDirCall

MakeRemoveSpec == TreeInit /\ [][MakeRemoveNext]_vars

\* ---------------------------------------------------- removal of trees

\* The names of TestRemoveAll, "TestRemoveAll", "TestRemoveAll/sub" and
\* "TestRemoveAll/sub/leaf", written "a", "a/a" and "a/a/a", and a sibling
\* "aa" at the first two levels.
TreeKeys ==
  {<<"a">>, <<"a", "a">>, <<"a", "/", "a">>, <<"a", "/", "a", "a">>,
   <<"a", "/", "a", "/", "a">>}

\* a directory as MkdirAll(fsys, subDir, 0755) leaves it
TreeDir == MapFile(TRUE, 493, 0, 0, 0, 0, 0, FALSE)

\* The stores over these names: each name is absent, a directory or a file,
\* and nothing lies below a file.  A directory may be left out of the map
\* while something lies below it, as "subdir" is in testFS.
Trees ==
  {t \in UNION {[K -> {TreeDir, HelloFile}] : K \in SUBSET TreeKeys} :
     \A k \in DOMAIN t : ~t[k].dir => ~HasChildren(t, k)}

RemoveAllCall ==
  \E caps \in SUBSET {"RemoveFS", "RemoveAllFS"}, faults \in MethodFaults :
    LET e == Env(files, caps, {}, faults)
    IN Returned("RemoveAll", <<>>, 0, 0, e, RemoveAll(e, name, 0))

\* Calls of RemoveAll, Remove and Mkdir, one after the other, on one path
\* name of a tree.
RemoveInit ==
  /\ files \in Trees
  /\ pre = files
  /\ name \in TreeKeys \cup {<<".">>}
  /\ call = NoCall
  /\ err = NoErr
  /\ log = <<>>

RemoveNext == RemoveAllCall \/ RemoveCall \/ MkdirCall

RemoveSpec == RemoveInit /\ [][RemoveNext]_vars

\* ------------------------------------------------- calls through sub-views

\* the directories sub-views are taken of
SubRoots == {<<"a">>, <<"a", "/", "a">>}

\* Sub(P, "a"), Sub(P, "a/a") and Sub(Sub(P, "a"), "a")
SubViews ==
  {Sub(<<>>, d).dirs : d \in SubRoots}
    \cup {Sub(Sub(<<>>, d).dirs, d).dirs : d \in {<<"a">>}}

\* "a", "a/a" and the file "a/a/a"
DeepFS ==
  [k \in {<<"a">>, <<"a", "/", "a">>, <<"a", "/", "a", "/", "a">>} |->
     IF Len(k) = 5 THEN HelloFile ELSE TreeDir]

\* the method op(name, new, a1, a2) of the sub-view dirs of the filesystem e
\* returned
SubReturned(op, dirs, new, a1, a2, e, fwd, parent) ==
  \E r \in {SubApply(dirs, e.files, op, fwd, parent)} :
     /\ pre' = files
     /\ files' = r.files
     /\ call' = [op |-> op, new |-> new, a1 |-> a1, a2 |-> a2,
                 caps |-> e.caps, fcaps |-> e.fcaps, faults |-> e.faults,
                 dirs |-> dirs, fwd |-> r.fwd, perr |-> r.perr, res |-> r.res]
     /\ err' = r.err
     /\ log' = r.log
     /\ UNCHANGED name

OpenFaults == SUBSET {"open"}

SubOpenCall ==
  \E dirs \in SubViews, faults \in OpenFaults :
    LET e == Env(files, {}, {}, faults)
        fwd == SubFull(dirs, "Open", name, <<>>)
    IN SubReturned("Open", dirs, <<>>, 0, 0, e, fwd,
                   ParentOpen(e, fwd.full))

SubStatCall ==
  \E dirs \in SubViews, faults \in OpenFaults :
    LET e == Env(files, {}, {}, faults)
        fwd == SubFull(dirs, "Stat", name, <<>>)
    IN SubReturned("Stat", dirs, <<>>, 0, 0, e, fwd,
                   ParentStat(e, fwd.full))

SubLstatCall ==
  \E dirs \in SubViews, caps \in SUBSET {"LstatFS"}, faults \in MethodFaults :
    LET e == Env(files, caps, {}, faults)
        fwd == SubFull(dirs, "Lstat", name, <<>>)
    IN SubReturned("Lstat", dirs, <<>>, 0, 0, e, fwd,
                   Forwarded(Lstat(e, fwd.full), <<fwd.full>>))

SubReadDirCall ==
  \E dirs \in SubViews, faults \in OpenFaults :
    LET e == Env(files, {}, {}, faults)
        fwd == SubFull(dirs, "ReadDir", name, <<>>)
    IN SubReturned("ReadDir", dirs, <<>>, 0, 0, e, fwd,
                   ParentReadDir(e, fwd.full))

SubReadFileCall ==
  \E dirs \in SubViews, faults \in OpenFaults :
    LET e == Env(files, {}, {}, faults)
        fwd == SubFull(dirs, "ReadFile", name, <<>>)
    IN SubReturned("ReadFile", dirs, <<>>, 0, 0, e, fwd,
                   ParentReadFile(e, fwd.full))

SubOpenFileCall ==
  \E dirs \in SubViews, flag \in {O_RDONLY, O_WRONLY},
     caps \in SUBSET {"OpenFileFS"}, faults \in OpenFaults :
    LET e == Env(files, caps, {}, faults)
        fwd == SubFull(dirs, "OpenFile", name, <<>>)
    IN SubReturned("OpenFile", dirs, <<>>, flag, 0, e, fwd,
                   ParentOpenFile(e, fwd.full, flag))

SubChmodCall ==
  \E dirs \in SubViews, m \in Modes, caps \in SUBSET {"ChmodFS"},
     fcaps \in SUBSET {"ChmodFile"}, faults \in MethodFaults :
    LET e == Env(files, caps, fcaps, faults)
        fwd == SubFull(dirs, "Chmod", name, <<>>)
    IN SubReturned("Chmod", dirs, <<>>, m, 0, e, fwd,
                   Forwarded(Chmod(e, fwd.full, m), <<fwd.full>>))

SubChownCall ==
  \E dirs \in SubViews, o \in Owners, caps \in SUBSET {"ChownFS"},
     fcaps \in SUBSET {"ChownFile"}, faults \in MethodFaults :
    LET e == Env(files, caps, fcaps, faults)
        fwd == SubFull(dirs, "Chown", name, <<>>)
    IN SubReturned("Chown", dirs, <<>>, o[1], o[2], e, fwd,
                   Forwarded(Chown(e, fwd.full, o[1], o[2]), <<fwd.full>>))

SubLchownCall ==
  \E dirs \in SubViews, o \in Owners, caps \in SUBSET {"LchownFS"},
     faults \in MethodFaults :
    LET e == Env(files, caps, {}, faults)
        fwd == SubFull(dirs, "Lchown", name, <<>>)
    IN SubReturned("Lchown", dirs, <<>>, o[1], o[2], e, fwd,
                   Forwarded(Lchown(e, fwd.full, o[1], o[2]), <<fwd.full>>))

SubChtimesCall ==
  \E dirs \in SubViews, t \in Times, caps \in SUBSET {"ChtimesFS"},
     fcaps \in SUBSET {"ChtimesFile"}, faults \in MethodFaults :
    LET e == Env(files, caps, fcaps, faults)
        fwd == SubFull(dirs, "Chtimes", name, <<>>)
    IN SubReturned("Chtimes", dirs, <<>>, t[1], t[2], e, fwd,
                   Forwarded(Chtimes(e, fwd.full, t[1], t[2]), <<fwd.full>>))

SubMkdirCall ==
  \E dirs \in SubViews, perm \in Perms, caps \in SUBSET {"MkdirFS"},
     faults \in MethodFaults :
    LET e == Env(files, caps, {}, faults)
        fwd == SubFull(dirs, "Mkdir", name, <<>>)
    IN SubReturned("Mkdir", dirs, <<>>, perm, 0, e, fwd,
                   Forwarded(Mkdir(e, fwd.full, perm), <<fwd.full>>))

SubMkdirAllCall ==
  \E dirs \in SubViews, perm \in Perms, caps \in SUBSET {"MkdirFS", "MkdirAllFS"},
     faults \in MethodFaults :
    LET e == Env(files, caps, {}, faults)
        fwd == SubFull(dirs, "MkdirAll", name, <<>>)
    IN SubReturned("MkdirAll", dirs, <<>>, perm, 0, e, fwd,
                   Forwarded(MkdirAll(e, fwd.full, perm), <<fwd.full>>))

SubReadlinkCall ==
  \E dirs \in SubViews, caps \in SUBSET {"ReadlinkFS"}, faults \in MethodFaults :
    LET e == Env(files, caps, {}, faults)
        fwd == SubFull(dirs, "Readlink", name, <<>>)
    IN SubReturned("Readlink", dirs, <<>>, 0, 0, e, fwd,
                   Forwarded(Readlink(e, fwd.full), <<fwd.full>>))

SubRemoveCall ==
  \E dirs \in SubViews, caps \in SUBSET {"RemoveFS"}, faults \in MethodFaults :
    LET e == Env(files, caps, {}, faults)
        fwd == SubFull(dirs, "Remove", name, <<>>)
    IN SubReturned("Remove", dirs, <<>>, 0, 0, e, fwd,
                   Forwarded(Remove(e, fwd.full), <<fwd.full>>))

SubRemoveAllCall ==
  \E dirs \in SubViews, caps \in SUBSET {"RemoveFS", "RemoveAllFS"},
     faults \in MethodFaults :
    LET e == Env(files, caps, {}, faults)
        fwd == SubFull(dirs, "RemoveAll", name, <<>>)
    IN SubReturned("RemoveAll", dirs, <<>>, 0, 0, e, fwd,
                   Forwarded(RemoveAll(e, fwd.full, 0), <<fwd.full>>))

SubTruncateCall ==
  \E dirs \in SubViews, size \in Sizes, caps \in SUBSET {"TruncateFS", "OpenFileFS"},
     fcaps \in SUBSET {"TruncateFile"}, faults \in MethodFaults :
    LET e == Env(files, caps, fcaps, faults)
        fwd == SubFull(dirs, "Truncate", name, <<>>)
    IN SubReturned("Truncate", dirs, <<>>, size, 0, e, fwd,
                   Forwarded(Truncate(e, fwd.full, size), <<fwd.full>>))

SubRenameCall ==
  \E dirs \in SubViews, new \in Strs(1), caps \in SUBSET {"RenameFS"},
     faults \in MethodFaults :
    LET e == Env(files, caps, {}, faults)
        fwd == SubFull(dirs, "Rename", name, new)
    IN SubReturned("Rename", dirs, new, 0, 0, e, fwd,
                   Forwarded(Rename(e, fwd.full, fwd.newFull), <<fwd.full, fwd.newFull>>))

SubSymlinkCall ==
  \E dirs \in SubViews, new \in Strs(1), caps \in SUBSET {"SymlinkFS"},
     faults \in MethodFaults :
    LET e == Env(files, caps, {}, faults)
        fwd == SubFull(dirs, "Symlink", name, new)
    IN SubReturned("Symlink", dirs, new, 0, 0, e, fwd,
                   Forwarded(Symlink(e, fwd.full, fwd.newFull), <<fwd.full, fwd.newFull>>))

SubLinkCall ==
  \E dirs \in SubViews, new \in Strs(1), caps \in SUBSET {"LinkFS"},
     faults \in MethodFaults :
    LET e == Env(files, caps, {}, faults)
        fwd == SubFull(dirs, "Link", name, new)
    IN SubReturned("Link", dirs, new, 0, 0, e, fwd,
                   Forwarded(Link(e, fwd.full, fwd.newFull), <<fwd.full, fwd.newFull>>))

\* One call of a method of a sub-view of a filesystem built for the purpose.
SubInit ==
  /\ files \in InitFS \cup {DeepFS}
  /\ pre = files
  /\ name \in Strs(MaxNameLen)
  /\ call = NoCall
  /\ err = NoErr
  /\ log = <<>>

SubNext ==
  \/ call = NoCall /\ SubOpenCall
  \/ call = NoCall /\ SubStatCall
  \/ call = NoCall /\ SubLstatCall
  \/ call = NoCall /\ SubReadDirCall
  \/ call = NoCall /\ SubReadFileCall
  \/ call = NoCall /\ SubOpenFileCall
  \/ call = NoCall /\ SubChmodCall
  \/ call = NoCall /\ SubChownCall
  \/ call = NoCall /\ SubLchownCall
  \/ call = NoCall /\ SubChtimesCall
  \/ call = NoCall /\ SubMkdirCall
  \/ call = NoCall /\ SubMkdirAllCall
  \/ call = NoCall /\ SubReadlinkCall
  \/ call = NoCall /\ SubRemoveCall
  \/ call = NoCall /\ SubRemoveAllCall
  \/ call = NoCall /\ SubTruncateCall
  \/ call = NoCall /\ SubRenameCall
  \/ call = NoCall /\ SubSymlinkCall
  \/ call = NoCall /\ SubLinkCall

SubSpec == SubInit /\ [][SubNext]_vars

\* ------------------------------------------------------ Glob of sub-views

\* the paths a Glob of the parent may return
GlobResults ==
  {<<"a">>, <<"a", "a">>, <<"a", "/", "a">>, <<"a", "/", "a", "/", "a">>}

\* what P.Glob returns: up to a pair of paths, with or without an error
GlobLists ==
  {<<>>} \cup {<<x>> : x \in GlobResults}
    \cup {<<x, y>> : x \in GlobResults, y \in GlobResults}

SubGlobCall ==
  \E dirs \in SubViews, list \in GlobLists,
     perr \in {NoErr, PathError("glob", <<"a", "/", "a">>, ErrPermission)} :
    \E r \in {subFSGlob(dirs, name, list, perr)} :
      /\ call' = [NoCall EXCEPT !.op = "Glob"]
                   @@ [dirs |-> dirs, fwd |-> r.fwd, perr |-> perr,
                       list |-> list, res |-> r.list]
      /\ err' = r.err
      /\ log' = [i \in DOMAIN r.fwd |-> Called("FS.Glob", r.fwd[i], perr)]
      /\ UNCHANGED <<files, pre, name>>

\* One call of Glob on a sub-view, with one pattern.
GlobInit ==
  /\ files = EmptyFS
  /\ pre = files
  /\ name \in Patterns
  /\ call = NoCall
  /\ err = NoErr
  /\ log = <<>>

GlobNext == call = NoCall /\ SubGlobCall

GlobSpec == GlobInit /\ [][GlobNext]_vars

\* ----------------------------------------------------------------- claims

\* the whole-filesystem capability of a dispatch function
FSCap(op) == op \o "FS"

\* the handle-scoped capability of a dispatch function
FileCap(op) == op \o "File"

Closes == {i \in DOMAIN log : log[i].m = "File.Close"}

Opens == {i \in DOMAIN log : log[i].m \in {"FS.Open", "FS.OpenFile"}}

\* the call took the open-then-delegate path and the open succeeded
OpenedHandle ==
  /\ call.op \in {"Chown", "Chmod", "Chtimes", "Truncate"}
  /\ FSCap(call.op) \notin call.caps
  /\ Opens = {1}
  /\ log[1].ret = NoErr

\* C1: for Chown, Chmod, Chtimes and Truncate on a filesystem with the
\* whole-filesystem capability, the only call made is that method on the
\* caller's name (no Open, nothing on a handle) and its result is returned
\* unchanged, also when the file handles have the handle-scoped capability.
C1_CapabilityPrecedence ==
  (call.op \in {"Chown", "Chmod", "Chtimes", "Truncate"} /\ FSCap(call.op) \in call.caps)
    => /\ Len(log) = 1
       /\ log[1].m = "FS." \o call.op
       /\ log[1].name = name
       /\ err = log[1].ret

C1_Witness ==
  /\ call.op = "Chown"
  /\ call.caps = {"ChownFS"}
  /\ call.fcaps = {"ChownFile"}
  /\ err = NoErr
  /\ log = <<Called("FS.Chown", name, NoErr)>>
  /\ files[name].uid = 2 /\ files[name].gid = 3

\* the named file is a regular file of the store before the call
RegularBefore == name \in DOMAIN pre /\ ~pre[name].dir /\ ValidPath(name)

\* the store before the call with the metadata change of the call applied
Changed ==
  CASE call.op = "Chown" ->
         [pre EXCEPT ![name].uid = call.a1, ![name].gid = call.a2]
    [] call.op = "Chmod" ->
         [pre EXCEPT ![name].perm = call.a1]
    [] call.op = "Chtimes" ->
         [pre EXCEPT ![name].atime = call.a1, ![name].mtime = call.a2]

\* C2: Chown, Chmod and Chtimes on a filesystem without the whole-filesystem
\* capability whose file handles have the handle-scoped capability, on an
\* existing regular file and with no underlying call failing: the file is
\* opened, the change is applied to that file and to nothing else, the handle
\* is closed, and no error is returned.
C2_HandleFallback ==
  (/\ call.op \in {"Chown", "Chmod", "Chtimes"}
   /\ FSCap(call.op) \notin call.caps
   /\ FileCap(call.op) \in call.fcaps
   /\ call.faults = {}
   /\ RegularBefore)
    => /\ err = NoErr
       /\ files = Changed
       /\ log = <<Called("FS.Open", name, NoErr),
                  Called("File." \o call.op, name, NoErr),
                  Called("File.Close", name, NoErr)>>

\* Chown(F, "hello.txt", 2, 3) with F exposing only the handle-scoped chown
C2_Witness ==
  /\ call.op = "Chown" /\ call.a1 = 2 /\ call.a2 = 3
  /\ call.caps = {} /\ call.fcaps = {"ChownFile"} /\ call.faults = {}
  /\ pre = TestFS /\ name = <<"a">>
  /\ err = NoErr
  /\ files[name].uid = 2 /\ files[name].gid = 3

\* C3: Chown, Chmod and Chtimes where neither the filesystem nor the opened
\* file has the capability fail with a PathError whose cause is an
\* unsupported-operation error and whose path is the caller's name, and the
\* store is unchanged.
C3_TerminalUnsupported ==
  (/\ call.op \in {"Chown", "Chmod", "Chtimes"}
   /\ OpenedHandle
   /\ ~(RegularBefore /\ FileCap(call.op) \in call.fcaps))
    => /\ err.kind = "PathError"
       /\ err.cause \in {ErrUnsupported, ErrNotSupported}
       /\ err.path = name
       /\ files = pre

\* Chown(F2, "hello.txt", 3, 2) with F2 exposing neither capability
C3_Witness ==
  /\ call.op = "Chown" /\ call.a1 = 3 /\ call.a2 = 2
  /\ call.caps = {} /\ call.fcaps = {}
  /\ pre = TestFS /\ name = <<"a">>
  /\ err = PathError("chown", name, ErrNotSupported)
  /\ files = TestFS

\* the capability a dispatch function without a handle fallback probes for
NoCapability ==
  \/ /\ call.op \in {"Lchown", "Mkdir", "Remove", "Lstat", "Readlink", "Rename",
                     "Symlink", "Link"}
     /\ FSCap(call.op) \notin call.caps
  \/ /\ call.op = "OpenFile" /\ call.a1 # O_RDONLY
     /\ "OpenFileFS" \notin call.caps
  \/ /\ call.op = "Truncate"
     /\ call.caps \cap {"TruncateFS", "OpenFileFS"} = {}
  \/ /\ call.op \in {"Chown", "Chmod", "Chtimes", "Truncate"}
     /\ OpenedHandle
     /\ ~(RegularBefore /\ FileCap(call.op) \in call.fcaps)

\* C4: the unsupported error of every dispatch function has one and the same
\* cause, the ErrUnsupported the README names.
C4_OneUnsupportedCause ==
  NoCapability => err.cause = ErrUnsupported

\* the operation name of a dispatch function
OpName(op) ==
  CASE op = "Chown" -> "chown"
    [] op = "Lchown" -> "lchown"
    [] op = "Chmod" -> "chmod"
    [] op = "Chtimes" -> "chtimes"
    [] op = "Truncate" -> "truncate"
    [] op = "OpenFile" -> "open"
    [] op = "Mkdir" -> "mkdir"
    [] op = "MkdirAll" -> "mkdir"
    [] op = "Remove" -> "remove"
    [] op = "Lstat" -> "lstat"
    [] op = "Readlink" -> "readlink"
    [] op = "Rename" -> "rename"
    [] op = "Symlink" -> "symlink"
    [] op = "Link" -> "link"

\* C5: with no capability available, the error of a dispatch function carries
\* the name of the operation the caller invoked and the path the caller
\* passed (Lchown: lchown; Truncate without Truncate and OpenFile: truncate).
C5_OpAndPath ==
  NoCapability => /\ err.kind \in {"PathError", "LinkError"}
                  /\ err.op = OpName(call.op)
                  /\ err.path = name

\* C6: a dispatch function called with an invalid path returns a structured
\* error and calls no method of the filesystem.
C6_InvalidPathRejected ==
  (/\ call.op # "none"
   /\ \/ ~ValidPath(name)
      \/ call.op \in {"Rename", "Symlink", "Link"} /\ ~ValidPath(call.new))
    => /\ err.kind \in {"PathError", "LinkError"}
       /\ log = <<>>

\* C7: on the open-then-delegate path of Chown, Chmod, Chtimes and Truncate,
\* the handle that was opened is closed exactly once, as the last call made,
\* and the dispatch function returns (the delegated call succeeded, it
\* failed, or the handle lacks the capability).
C7_ClosedOnce ==
  OpenedHandle => /\ Cardinality(Closes) = 1
                  /\ Len(log) \in Closes
                  /\ log[Len(log)].name = name
                  /\ err # Panic

\* the delegated call failed and the handle was closed all the same
C7_Witness ==
  /\ OpenedHandle
  /\ call.op = "Truncate"
  /\ Len(log) = 3
  /\ log[2] = Called("File.Truncate", name, PathError("truncate", name, ErrPermission))
  /\ log[3].m = "File.Close"

\* the error before Close on the open-then-delegate path: that of the
\* delegated call, or the unsupported error of the failed capability check
PriorError ==
  IF Len(log) = 3 THEN log[2].ret
  ELSE PathError(OpName(call.op), name, err.cause)

\* C8: on the open-then-delegate path, an error of the delegated call or of
\* the capability check is returned also when Close fails; with no such
\* error the result of Close is returned.
C8_CloseError ==
  OpenedHandle =>
    /\ Len(log) = 2 => /\ err = PriorError
                       /\ err.cause \in {ErrUnsupported, ErrNotSupported}
    /\ (Len(log) = 3 /\ PriorError # NoErr) => err = PriorError
    /\ (Len(log) = 3 /\ PriorError = NoErr) => err = log[3].ret

\* C9: when the filesystem lacks the whole-filesystem capability and opening
\* the target fails, the open error is returned unchanged, Close is called on
\* no handle, and the call does not panic.
C9_OpenError ==
  (/\ call.op \in {"Chown", "Chmod", "Chtimes", "Truncate"}
   /\ FSCap(call.op) \notin call.caps
   /\ Opens = {1}
   /\ log[1].ret # NoErr)
    => /\ err = log[1].ret
       /\ Closes = {}
       /\ err # Panic

\* the prefixes of a path name that end at an element: "a", "a/a", "a/a/a"
Prefixes(p) ==
  {SubSeq(p, 1, k - 1) : k \in {i \in 1..Len(p) + 1 : i = Len(p) + 1 \/ p[i] = "/"}}

Exists(fs, p) == MapFSOpen(fs, p).err = NoErr

\* the successful calls of Mkdir in the log
Made == {i \in DOMAIN log : log[i].m = "FS.Mkdir" /\ log[i].ret = NoErr}

\* MkdirAll on a filesystem with Mkdir only, on a valid path none of whose
\* prefixes exists, with no underlying call failing
FreshMkdirAll ==
  /\ call.op = "MkdirAll"
  /\ call.caps = {"MkdirFS"}
  /\ call.faults = {}
  /\ ValidPath(name) /\ name # <<".">>
  /\ \A q \in Prefixes(name) : ~Exists(pre, q)

\* C10: the MkdirAll fallback on a path of n elements none of which exists
\* returns no error and creates exactly the n prefix directories, each with
\* the permission asked for; nothing else in the store changes; Mkdir is
\* called once per prefix, and the Mkdir of a directory comes after the
\* successful Mkdir of its parent.
C10_MkdirAllCreates ==
  FreshMkdirAll =>
    /\ err = NoErr
    /\ DOMAIN files = DOMAIN pre \cup Prefixes(name)
    /\ \A q \in Prefixes(name) :
         files[q] = MapFile(TRUE, call.a1, 0, 0, 0, 0, 0, FALSE)
    /\ \A q \in DOMAIN pre : files[q] = pre[q]
    /\ {i \in DOMAIN log : log[i].m = "FS.Mkdir"} = Made
    /\ Cardinality(Made) = Cardinality(Prefixes(name))
    /\ \A i \in Made :
         /\ log[i].name \in Prefixes(name)
         /\ \A q \in Prefixes(name) :
              (Len(q) < Len(log[i].name))
                => \E j \in Made : j < i /\ log[j].name = q

\* MkdirAll(fsys, "a/a/a", 0775) on the empty store
C10_Witness ==
  /\ FreshMkdirAll
  /\ name = <<"a", "/", "a", "/", "a">>
  /\ call.a1 = 509
  /\ err = NoErr
  /\ DOMAIN files = {<<"a">>, <<"a", "/", "a">>, <<"a", "/", "a", "/", "a">>}

\* MkdirAll of p was called on a filesystem with Mkdir only, no call failing
FreshMkdirAllOn(p) ==
  /\ call.op = "MkdirAll"
  /\ call.caps = {"MkdirFS"}
  /\ call.faults = {}
  /\ name = p

\* C11: after a MkdirAll of a valid path that returned no error, a further
\* MkdirAll of that path on the same filesystem, with any permission and no
\* underlying call failing, returns no error and leaves the store as it was:
\* nothing is created and no permission changes.
C11_MkdirAllIdempotent ==
  [][(/\ call.op = "MkdirAll" /\ err = NoErr /\ ValidPath(name)
      /\ call'.op = "MkdirAll" /\ call'.caps = call.caps /\ call'.faults = {})
       => (err' = NoErr /\ files' = files)]_vars

\* "a" and "a/a" were made with 0755 by a MkdirAll of "a/a"; a MkdirAll of
\* "a/a" with 0775 has returned nil and changed nothing
C11_Witness ==
  /\ name = <<"a", "/", "a">>
  /\ call.op = "MkdirAll" /\ call.caps = {"MkdirFS"} /\ call.a1 = 509
  /\ err = NoErr
  /\ pre = files
  /\ files = [p \in {<<"a">>, <<"a", "/", "a">>} |->
                MapFile(TRUE, 493, 0, 0, 0, 0, 0, FALSE)]

\* C12: MkdirAll of "foo/bar/baz/." with 0775 on an empty filesystem that has
\* Mkdir only returns no error and leaves exactly the directories "foo",
\* "foo/bar" and "foo/bar/baz" in the store, each with permission 0775: no
\* entry for the trailing "." is made.
C12_TrailingDot ==
  (/\ FreshMkdirAllOn(TrailingDot) /\ pre = EmptyFS /\ call.a1 = 509)
    => /\ err = NoErr
       /\ DOMAIN files = Prefixes(SubSeq(TrailingDot, 1, Len(TrailingDot) - 2))
       /\ \A q \in DOMAIN files : files[q] = MapFile(TRUE, 509, 0, 0, 0, 0, 0, FALSE)

\* the part of C12 the code does: no error, and the three directories made
C12_ThreeDirsMade ==
  (/\ FreshMkdirAllOn(TrailingDot) /\ pre = EmptyFS /\ call.a1 = 509)
    => /\ err = NoErr
       /\ \A q \in Prefixes(SubSeq(TrailingDot, 1, Len(TrailingDot) - 2)) :
            /\ q \in DOMAIN files
            /\ files[q] = MapFile(TRUE, 509, 0, 0, 0, 0, 0, FALSE)

\* the store after the call of C12 holds the key "foo/bar/baz/."
C12_DotEntry ==
  /\ FreshMkdirAllOn(TrailingDot) /\ pre = EmptyFS /\ call.a1 = 509
  /\ err = NoErr
  /\ TrailingDot \in DOMAIN files

\* the keys of the store at root or below it
Under(fs, root) ==
  {k \in DOMAIN fs : root = <<".">> \/ k = root \/ HasPrefix(k, root \o <<"/">>)}

Removes == {i \in DOMAIN log : log[i].m = "FS.Remove"}

\* RemoveAll of an existing path on a filesystem with Remove and without
\* RemoveAll, in which every Remove returned nil
RemovedAll ==
  /\ call.op = "RemoveAll"
  /\ call.caps = {"RemoveFS"}
  /\ call.faults = {}
  /\ Exists(pre, name)
  /\ \A i \in Removes : log[i].ret = NoErr

\* C13: a RemoveAll of an existing path on a filesystem with Remove only, in
\* which every Remove succeeds, returns no error, leaves nothing at the path
\* or below it, and a Stat of the path afterwards fails with not-exist.
C13_RemoveAllRemovesTree ==
  RemovedAll =>
    /\ err = NoErr
    /\ Under(files, name) = {}
    /\ Stat(Env(files, call.caps, {}, {}), name).err
         = PathError("open", name, ErrNotExist)

\* C13 for every root but "."
C13_BelowRoot ==
  (RemovedAll /\ name # <<".">>) => C13_RemoveAllRemovesTree

\* RemoveAll(fsys, ".") returned nil and "." is still there
C13_RootRemains ==
  /\ RemovedAll /\ name = <<".">>
  /\ pre = [k \in {<<"a">>} |-> TreeDir]
  /\ err = NoErr
  /\ files = EmptyFS
  /\ Stat(Env(files, call.caps, {}, {}), name).err = NoErr

\* C14: RemoveAll, on a filesystem without RemoveAll, of a path whose Stat
\* fails with not-exist returns that error, makes no call after the Open of
\* the Stat (no ReadDir, no Remove), and leaves the store as it was.
C14_RemoveAllNotExist ==
  (/\ call.op = "RemoveAll"
   /\ "RemoveAllFS" \notin call.caps
   /\ ~Exists(pre, name))
    => /\ err = PathError("open", name, ErrNotExist)
       /\ log = <<Called("FS.Open", name, err)>>
       /\ files = pre

\* RemoveAll(fsys, "a/a/a") where only "a" and "a/a" exist
C14_Witness ==
  /\ call.op = "RemoveAll" /\ call.caps = {"RemoveFS"}
  /\ name = <<"a", "/", "a", "/", "a">>
  /\ pre = [k \in {<<"a">>, <<"a", "/", "a">>} |-> TreeDir]
  /\ err = PathError("open", name, ErrNotExist)
  /\ files = pre

\* the filesystem the last call was made on, as it was before the call
Parent == Env(pre, call.caps, call.fcaps, call.faults)

\* the last call was S.Open(name) on the sub-view S = Sub(P, root), name valid
SubOpened(root) ==
  /\ call.op = "Open"
  /\ call.dirs = <<root>>
  /\ ValidPath(name)

\* S.Open(name) went as P.Open(full) does, with the path of the error
\* shortened to name
OpensAs(full) ==
  LET o == FsysOpen(Parent, full)
  IN /\ (err = NoErr) <=> (o.err = NoErr)
     /\ (err = NoErr) => call.res = <<o.kind, o.f>>
     /\ (o.err.kind = "PathError" /\ o.err.path = full)
          => err = [o.err EXCEPT !.path = name]

\* C15 as stated: for a sub-view S rooted at root and every valid path x,
\* S.Open(x) succeeds exactly when P.Open(root + "/" + x) does, with the same
\* file; an error of the latter with path root + "/" + x comes back with the
\* same operation and cause and with path x.
C15_SubOpenConcat ==
  \A root \in SubRoots : SubOpened(root) => OpensAs(root \o <<"/">> \o name)

\* C15, amended: the path P is compared on is join(root, x), which is root
\* itself for x = "." and root + "/" + x for every other valid x.
C15_SubOpen ==
  \A root \in SubRoots : SubOpened(root) => OpensAs(pathJoin(root, name))

\* Sub(P, "a").Open("aa") where P has no "a/aa": the error names "aa"
C15_Witness ==
  /\ SubOpened(<<"a">>)
  /\ name = <<"a", "a">>
  /\ call.perr = PathError("open", <<"a", "/", "a", "a">>, ErrNotExist)
  /\ err = PathError("open", <<"a", "a">>, ErrNotExist)

\* C16: every method of Sub(Sub(P, "a"), "a"), on every valid path, hands P
\* the path that Sub(P, "a/a") hands it, and returns the error (with the same
\* path), the result and the store that Sub(P, "a/a") returns.
C16_SubComposes ==
  (/\ call.op # "none"
   /\ call.dirs = <<(<<"a">>), (<<"a">>)>>
   /\ ValidPath(name))
    => LET flat == <<(<<"a", "/", "a">>)>>
           fwd == SubFull(flat, call.op, name, call.new)
           r == SubApply(flat, pre, call.op, fwd,
                         ParentOp(Parent, call.op, fwd.full, fwd.newFull,
                                  call.a1, call.a2))
       IN /\ call.fwd = r.fwd
          /\ err = r.err
          /\ call.res = r.res
          /\ files = r.files

\* the path of an error of the parent, taken relative to root
Relative(root, path) ==
  IF path = root THEN <<".">>
  ELSE IF HasPrefix(path, root \o <<"/">>) /\ Len(path) > Len(root) + 1
  THEN SubSeq(path, Len(root) + 2, Len(path))
  ELSE path

\* C17: for every single-path method of a sub-view, a PathError of the parent
\* whose path is root + "/" + p is returned with path p, and one whose path
\* is root is returned with path ".".
C17_SubErrorPath ==
  \A root \in SubRoots :
    (/\ call.op \notin LinkOps \cup {"none"}
     /\ call.dirs = <<root>>
     /\ call.perr.kind = "PathError"
     /\ Relative(root, call.perr.path) # call.perr.path)
      => err = [call.perr EXCEPT !.path = Relative(root, call.perr.path)]

\* C17 for every single-path method but Readlink
C17_ButReadlink ==
  call.op # "Readlink" => C17_SubErrorPath

\* C18: for Rename, Symlink and Link of a sub-view, an error of the parent's
\* dispatch function that carries the two forwarded paths is returned with
\* both paths relative to root: the paths the caller passed.
C18_SubLinkErrorPaths ==
  \A root \in SubRoots :
    (/\ call.op \in LinkOps
     /\ call.dirs = <<root>>
     /\ Len(call.fwd) = 2
     /\ call.perr.kind \in {"PathError", "LinkError"}
     /\ call.perr.path = call.fwd[1]
     /\ call.perr.new = call.fwd[2])
      => /\ err.kind = call.perr.kind
         /\ err.path = name
         /\ err.new = call.new

\* the directory of the parent a sub-view or a sub-view of a sub-view shows
FullRoot(dirs) == Join(dirs)

\* C19: every path a sub-view hands to its parent is join(root, path) of a
\* valid path, for Rename, Symlink and Link both paths; it is root or begins
\* with root + "/" and has no ".." element.  A call with an invalid path
\* hands nothing on.
C19_ForwardedUnderRoot ==
  (call.op # "none") =>
    LET root == FullRoot(call.dirs)
        paths == IF call.op \in LinkOps THEN <<name, call.new>> ELSE <<name>>
    IN IF \E i \in DOMAIN paths : ~ValidPath(paths[i])
       THEN call.fwd = <<>>
       ELSE /\ Len(call.fwd) = Len(paths)
            /\ \A i \in DOMAIN paths :
                 /\ call.fwd[i] = pathJoin(root, paths[i])
                 /\ call.fwd[i] = root \/ HasPrefix(call.fwd[i], root \o <<"/">>)
                 /\ \A k \in DOMAIN SplitFrom(call.fwd[i], 1) :
                      SplitFrom(call.fwd[i], 1)[k] # <<".", ".">>

\* Sub(P, "a/a").Rename("a", ".") handed P "a/a/a" and "a/a"
C19_Witness ==
  /\ call.op = "Rename"
  /\ call.dirs = <<(<<"a", "/", "a">>)>>
  /\ call.caps = {"RenameFS"}
  /\ name = <<"a">> /\ call.new = <<".">>
  /\ call.fwd = <<(<<"a", "/", "a", "/", "a">>), (<<"a", "/", "a">>)>>
  /\ log = <<Called("FS.Rename", <<"a", "/", "a", "/", "a">>, err)>>

\* a method of a sub-view was called with an invalid path
SubInvalid ==
  /\ call.op # "none"
  /\ \/ ~ValidPath(name)
     \/ call.op \in LinkOps /\ ~ValidPath(call.new)

\* the call was refused with a PathError for the operation and the invalid
\* path, and nothing was handed to the parent
SubRefused ==
  /\ err.kind = "PathError"
  /\ err.op = SubOpName(call.op)
  /\ err.path = IF ~ValidPath(name) THEN name ELSE call.new
  /\ call.fwd = <<>>
  /\ log = <<>>
  /\ files = pre

\* C20: a method of a sub-view called with an invalid path (Rename, Symlink,
\* Link: either path invalid) returns a new error with the invalid-argument
\* cause that names the operation and the invalid path, and hands nothing to
\* the parent.
C20_SubInvalidPath ==
  SubInvalid => (SubRefused /\ err.cause = ErrInvalid)

\* the part of C20 the code does
C20_Refused ==
  SubInvalid => SubRefused

\* the last call was Glob(name) on the sub-view Sub(P, root), and P.Glob was
\* called
GlobForwarded(root) ==
  /\ call.op = "Glob"
  /\ call.dirs = <<root>>
  /\ call.fwd # <<>>

\* the results of P.Glob that are neither root nor below root
Unshortened(root) ==
  {i \in DOMAIN call.list :
     /\ call.list[i] # root
     /\ ~(/\ HasPrefix(call.list[i], root \o <<"/">>)
          /\ Len(call.list[i]) > Len(root) + 1)}

\* C21: Glob on a sub-view of root returns each result root + "/" + s of the
\* parent as s; if a result of the parent is neither root nor below root,
\* Glob returns no results and an error whose message names that result.
C21_SubGlobResults ==
  \A root \in SubRoots :
    GlobForwarded(root) =>
      IF Unshortened(root) = {}
      THEN call.res = [i \in DOMAIN call.list |-> Relative(root, call.list[i])]
      ELSE /\ call.res = <<>>
           /\ err.kind = "bare"
           /\ \E i \in Unshortened(root) : err.cause[2] = call.list[i]

\* the part of C21 the code does: the results are shortened, and a result
\* that does not shorten makes Glob return no results and the error
\* "invalid result from inner fsys Glob"
C21_Shortened ==
  \A root \in SubRoots :
    GlobForwarded(root) =>
      IF Unshortened(root) = {}
      THEN call.res = [i \in DOMAIN call.list |-> Relative(root, call.list[i])]
      ELSE /\ call.res = <<>>
           /\ err.kind = "bare"
           /\ err.cause[1] = InvalidResult(<<>>, root).cause[1]

\* Sub(P, "a").Glob("*") where P.Glob returns "aa": the error names no path
C21_Unnamed ==
  /\ GlobForwarded(<<"a">>)
  /\ name = <<"*">>
  /\ call.list = <<(<<"a", "a">>)>>
  /\ call.res = <<>>
  /\ err = InvalidResult(<<>>, <<"a">>)

\* the location a pattern addresses lies at root or below it
UnderRoot(root, pattern) ==
  LET c == Clean(pattern)
  IN c = root \/ HasPrefix(c, root \o <<"/">>)

\* C29: whatever the pattern, ".." elements and a leading "/" included, Glob
\* on a sub-view of root hands the parent only patterns that address root or
\* something below root, or hands it nothing.
C29_GlobUnderRoot ==
  \A root \in SubRoots :
    (call.op = "Glob" /\ call.dirs = <<root>>)
      => \A i \in DOMAIN call.fwd : UnderRoot(root, call.fwd[i])

\* what the code does: a pattern that is well-formed and not "." is handed to
\* the parent as root + "/" + pattern, whatever its elements are
C29_Concatenated ==
  \A root \in SubRoots :
    (call.op = "Glob" /\ call.dirs = <<root>>)
      => call.fwd = IF BadPattern(name) \/ name = <<".">> THEN <<>>
                    ELSE <<root \o <<"/">> \o name>>

\* Sub(P, "a").Glob("..") has called P.Glob("a/..")
C29_Escapes ==
  /\ call.op = "Glob" /\ call.dirs = <<(<<"a">>)>>
  /\ name = <<".", ".">>
  /\ call.fwd = <<(<<"a", "/", ".", ".">>)>>
  /\ Clean(call.fwd[1]) = <<".">>

\* the last call was RemoveAll(S, name) on the sub-view S = Sub(P, root) of a
\* filesystem P that has Remove and no RemoveAll
SubRemovedAll(root) ==
  /\ call.op = "RemoveAll"
  /\ call.dirs = <<root>>
  /\ call.caps = {"RemoveFS"}

\* RemoveAll(S, name) did to P what RemoveAll(P, join(root, name)) does: the
\* same store, success or failure alike, and an error of P about root or
\* something below root comes back with that path taken relative to root
RemovesAs(root) ==
  LET r == RemoveAll(Parent, pathJoin(root, name), 0)
  IN /\ files = r.files
     /\ (err = NoErr) <=> (r.err = NoErr)
     /\ (err # NoErr) =>
          /\ r.err.path = root \/ HasPrefix(r.err.path, root \o <<"/">>)
          /\ err = [r.err EXCEPT !.path = Relative(root, r.err.path)]

\* C22: for a sub-view S rooted at r of a parent P with Remove only,
\* RemoveAll(S, p) leaves P's tree as RemoveAll(P, join(r, p)) leaves it,
\* succeeds or fails as it does, and returns its error with the path taken
\* relative to r; stated for every path p.
C22_SubRemoveAllAnyPath ==
  \A root \in SubRoots : SubRemovedAll(root) => RemovesAs(root)

\* C22, amended: the same for every valid path p.
C22_SubRemoveAll ==
  \A root \in SubRoots :
    (SubRemovedAll(root) /\ ValidPath(name)) => RemovesAs(root)

\* RemoveAll(Sub(P, "a"), "a") on "a", "a/a" and the file "a/a/a", the Remove
\* of P failing: the error names "a/a", the file of P being "a/a/a"
C22_Witness ==
  /\ SubRemovedAll(<<"a">>)
  /\ name = <<"a">>
  /\ pre = DeepFS
  /\ call.faults = {"method"}
  /\ call.perr = PathError("remove", <<"a", "/", "a", "/", "a">>, ErrPermission)
  /\ err = PathError("remove", <<"a", "/", "a">>, ErrPermission)
  /\ files = pre

\* RemoveAll(Sub(P, "a"), "a") on the same tree, no call failing: "a/a" and
\* "a/a/a" are gone from P and "a" is left
C22_Removed ==
  /\ SubRemovedAll(<<"a">>)
  /\ name = <<"a">>
  /\ pre = DeepFS
  /\ call.faults = {}
  /\ err = NoErr
  /\ files = [k \in {<<"a">>} |-> TreeDir]

\* RemoveAll(Sub(P, "a"), "a/.") where P holds the file "a/a": S refuses the
\* name and P keeps the file, which RemoveAll(P, join("a", "a/.")) removes
C22_InvalidRefused ==
  /\ SubRemovedAll(<<"a">>)
  /\ name = <<"a", "/", ".">>
  /\ pre = SubdirFS
  /\ call.faults = {}
  /\ err = PathError("remove", name, InvalidName)
  /\ files = pre
  /\ RemoveAll(Parent, pathJoin(<<"a">>, name), 0) = 
       Ret(EmptyFS, NoErr,
           <<Called("FS.Open", <<"a", "/", "a">>, NoErr),
             Called("File.Close", <<"a", "/", "a">>, NoErr),
             Called("FS.Remove", <<"a", "/", "a">>, NoErr)>>)

\* the last call was RemoveAll on a filesystem without RemoveAll
RemoveAllFallback ==
  /\ call.op = "RemoveAll"
  /\ "RemoveAllFS" \notin call.caps

\* the store when the i-th call of the log was made: the store before the
\* RemoveAll without what the Removes before the i-th have removed
StoreAt(i) ==
  [k \in DOMAIN pre \ {log[j].name : j \in {r \in Removes : r < i /\ log[r].ret = NoErr}}
     |-> pre[k]]

\* the ReadDirs of d in the log before the i-th call
ListedBefore(d, i) ==
  {j \in DOMAIN log : j < i /\ log[j].m = "File.ReadDir" /\ log[j].name = d}

\* C23: in the RemoveAll fallback, when Remove is called on a directory d,
\* ReadDir has listed d before, Remove has since returned nil for every entry
\* listed, and nothing below d is left in the store.
C23_ChildrenFirst ==
  RemoveAllFallback =>
    \A i \in Removes :
      LET d == log[i].name
      IN (MapFSOpen(pre, d).err = NoErr /\ MapFSOpen(pre, d).kind = "dir") =>
           /\ Under(StoreAt(i), d) \ {d} = {}
           /\ \E j \in ListedBefore(d, i) :
                \A en \in MapFSEntries(StoreAt(j), d) :
                  \E r \in Removes :
                    /\ j < r /\ r < i
                    /\ log[r].name = pathJoin(d, en.name)
                    /\ log[r].ret = NoErr

\* RemoveAll(fsys, "a") on the directories "a", "a/a" and the file "a/a/a":
\* Remove is called on "a/a/a", then on "a/a", then on "a"
C23_Witness ==
  /\ RemoveAllFallback /\ call.caps = {"RemoveFS"}
  /\ name = <<"a">>
  /\ pre = DeepFS
  /\ [i \in 1..Cardinality(Removes) |->
        log[CHOOSE r \in Removes : Cardinality({q \in Removes : q <= r}) = i].name]
       = <<(<<"a", "/", "a", "/", "a">>), (<<"a", "/", "a">>), (<<"a">>)>>
  /\ files = EmptyFS

\* the underlying calls of the log that returned an error
FailedCalls == {i \in DOMAIN log : log[i].ret # NoErr}

\* C24: in the RemoveAll fallback on an existing path, the first underlying
\* call that fails is the last call made and its error is the error returned:
\* no sibling is tried after it and Remove is not called on the directory or
\* on a directory above it.  The store afterwards is the store before the
\* call without the entries removed until then: none is restored and nothing
\* else is gone.
C24_AbortOnFailure ==
  (RemoveAllFallback /\ Exists(pre, name) /\ FailedCalls # {})
    => /\ FailedCalls = {Len(log)}
       /\ err = log[Len(log)].ret
       /\ files = StoreAt(Len(log) + 1)
       /\ \A i \in Removes :
            i < Len(log) => log[i].name \notin DOMAIN files

\* RemoveAll(fsys, "a") on the directory "a" and the files "a/a/a" and "a/aa":
\* "a/a/a" is removed, the Remove of "a/a", which no key stands for, fails,
\* "a/aa" is not tried and stays, and Remove is not called on "a"
C24_Witness ==
  /\ RemoveAllFallback /\ call.caps = {"RemoveFS"} /\ call.faults = {}
  /\ name = <<"a">>
  /\ pre = [k \in {<<"a">>, <<"a", "/", "a", "/", "a">>, <<"a", "/", "a", "a">>} |->
              IF k = <<"a">> THEN TreeDir ELSE HelloFile]
  /\ err = PathError("remove", <<"a", "/", "a">>, ErrNotExist)
  /\ {log[i].name : i \in Removes} = {<<"a", "/", "a", "/", "a">>, <<"a", "/", "a">>}
  /\ files = [k \in {<<"a">>, <<"a", "/", "a", "a">>} |-> pre[k]]

\* the last call was MkdirAll on a filesystem with Mkdir and without MkdirAll
MkdirAllFallback ==
  /\ call.op = "MkdirAll"
  /\ "MkdirFS" \in call.caps
  /\ "MkdirAllFS" \notin call.caps

\* C25: the MkdirAll fallback on a path that exists and is not a directory
\* returns the not-a-directory error for that path, does not call Mkdir, and
\* leaves the store as it was.
C25_NotADirectory ==
  (/\ MkdirAllFallback
   /\ MapFSOpen(pre, name).err = NoErr
   /\ MapFSOpen(pre, name).kind = "file")
    => /\ err = PathError("mkdir", name, ENOTDIR)
       /\ \A i \in DOMAIN log : log[i].m # "FS.Mkdir"
       /\ files = pre

\* MkdirAll(fsys, "a/a", 0775) where "a/a" is a regular file
C25_Witness ==
  /\ MkdirAllFallback
  /\ name = <<"a", "/", "a">>
  /\ pre = SubdirFS
  /\ call.a1 = 509
  /\ err = PathError("mkdir", name, ENOTDIR)
  /\ log = <<Called("FS.Open", name, NoErr), Called("File.Close", name, NoErr)>>
  /\ files = pre

\* the calls of Mkdir on the path of the MkdirAll itself that failed
FailedMkdirs ==
  {i \in DOMAIN log : /\ log[i].m = "FS.Mkdir"
                      /\ log[i].name = name
                      /\ log[i].ret # NoErr}

\* the path is a directory of the store when MkdirAll stats it again
RestatIsDir ==
  /\ MapFSOpen(files, name).err = NoErr
  /\ MapFSOpen(files, name).kind = "dir"

\* C26: when the Mkdir of the path itself fails in the MkdirAll fallback,
\* MkdirAll returns no error exactly when the second Stat of the path shows a
\* directory, and the error of that Mkdir (never the error of the second
\* Stat) otherwise.
C26_RaceTolerance ==
  (MkdirAllFallback /\ FailedMkdirs # {})
    => \A i \in FailedMkdirs :
         /\ (err = NoErr) <=> RestatIsDir
         /\ ~RestatIsDir => err = log[i].ret
         /\ ~RestatIsDir /\ MapFSOpen(files, name).err # NoErr
              => err # MapFSOpen(files, name).err

\* MkdirAll(fsys, "a", 0755) on an empty store where another user makes "a"
\* after the first Stat: Mkdir fails because "a" exists, the second Stat
\* shows the directory of the other user and MkdirAll returns no error
C26_Witness ==
  /\ MkdirAllFallback
  /\ call.faults = {"raced dir"}
  /\ pre = EmptyFS
  /\ name = <<"a">>
  /\ FailedMkdirs # {}
  /\ \A i \in FailedMkdirs : log[i].ret = PathError("mkdir", name, ErrExist)
  /\ files = [k \in {name} |-> MapFile(TRUE, call.a1, 0, 0, 0, 0, 0, FALSE)]
  /\ err = NoErr

\* MkdirAll(fsys, "a", 0755) on an empty store whose Mkdir fails: the second
\* Stat fails as the first did and MkdirAll returns the error of Mkdir
C26_MkdirError ==
  /\ MkdirAllFallback
  /\ call.faults = {"method"}
  /\ pre = EmptyFS
  /\ name = <<"a">>
  /\ FailedMkdirs # {}
  /\ MapFSOpen(files, name).err = PathError("open", name, ErrNotExist)
  /\ err # NoErr
  /\ \A i \in FailedMkdirs : err = log[i].ret

CreateOpened == OpenFile(Env(pre, call.caps, call.fcaps, call.faults), name, 578)

\* C28: a Create whose OpenFile fails returns an error and does not panic;
\* on a filesystem without OpenFile the error is the unsupported-operation
\* error for the path.
C28_CreateReturnsError ==
  (call.op = "Create" /\ CreateOpened.err # NoErr)
    => /\ err # NoErr
       /\ err.kind # "panic"
       /\ "OpenFileFS" \notin call.caps
            => err = PathError("open", name, ErrUnsupported)

\* Create(fsys, "a") on a filesystem without OpenFile panics
C28_Panics ==
  /\ call.op = "Create"
  /\ call.caps = {}
  /\ name = <<"a">>
  /\ CreateOpened.err = PathError("open", name, ErrUnsupported)
  /\ err = ConversionPanic

\* a Create whose OpenFile returns a file returns it with no error and no
\* panic
C28_CreateOpens ==
  (call.op = "Create" /\ CreateOpened.err = NoErr)
    => err = NoErr /\ files = pre

\* Create(fsys, "a") on a MapFS where "a" is a regular file
C28_Opened ==
  /\ call.op = "Create"
  /\ call.caps = {"OpenFileFS"}
  /\ name = <<"a">>
  /\ CreateOpened.err = NoErr
  /\ err = NoErr

\* the number of elements of a path, the empty ones not counted
ElementCount(path) ==
  Cardinality({i \in DOMAIN SplitFrom(path, 1) : SplitFrom(path, 1)[i] # <<>>})

\* the calls of MkdirAll a call of the fallback has made, itself included:
\* each begins with a Stat of its path, and the paths differ
MkdirAllCalls ==
  Cardinality({log[i].name : i \in {j \in DOMAIN log : log[j].m = "FS.Open"}})

\* the calls of RemoveAll a call of the fallback has made, itself included:
\* each begins with a Stat, which opens the path, and ReadDir opens it once
\* more
RemoveAllCalls ==
  Cardinality({i \in DOMAIN log : log[i].m = "FS.Open"})
    - Cardinality({i \in DOMAIN log : log[i].m = "File.ReadDir"})

\* the entries of the tree at root: the keys of the store and the directories
\* implied by them that are root or below it
TreeEntries(fs, root) ==
  {p \in UNION {Prefixes(q) : q \in DOMAIN fs} :
     root = <<".">> \/ p = root \/ HasPrefix(p, root \o <<"/">>)}

\* RemoveAll(fsys, dirName) on a filesystem without RemoveAll
RemoveAllDirFallback ==
  /\ call.op = "RemoveAll"
  /\ call.new = DirName(name)
  /\ "RemoveAllFS" \notin call.caps

\* C30: every call of the MkdirAll fallback and of the RemoveAll fallback
\* returns, after no more recursive calls than the path has elements
\* (MkdirAll) or the tree has entries (RemoveAll).
C30_Terminates ==
  /\ MkdirAllFallback
       => err.kind # "fatal" /\ MkdirAllCalls - 1 <= ElementCount(name)
  /\ RemoveAllDirFallback
       => /\ err.kind # "fatal"
          /\ RemoveAllCalls - 1 <= Cardinality(TreeEntries(pre, call.new))

\* RemoveAll(fsys, "a") does not return
C30_Overflow ==
  /\ RemoveAllDirFallback
  /\ call.new = <<"a">>
  /\ err = StackOverflow
  /\ RemoveAllCalls - 1 > Cardinality(TreeEntries(pre, call.new))

\* the MkdirAll fallback makes at most one call of MkdirAll for each element
\* of the path
C30_MkdirAllBounded ==
  MkdirAllFallback
    => err.kind # "fatal" /\ MkdirAllCalls <= ElementCount(name) + 1

\* MkdirAll(fsys, "a/a/a", perm) that calls MkdirAll for "a/a" and for "a"
C30_ThreeCalls ==
  /\ MkdirAllFallback
  /\ name = <<"a", "/", "a", "/", "a">>
  /\ MkdirAllCalls = 3
  /\ err = NoErr

\* the RemoveAll fallback on a store whose keys are all valid paths returns
\* after at most one recursive call for each entry of the tree
C30_RemoveAllBounded ==
  (RemoveAllDirFallback /\ \A q \in DOMAIN pre : ValidPath(q))
    => /\ err.kind # "fatal"
       /\ RemoveAllCalls - 1 <= Cardinality(TreeEntries(pre, call.new))

\* RemoveAll(fsys, "a") of the directories "a" and "a/a" that MkdirAll made
C30_TreeRemoved ==
  /\ RemoveAllDirFallback
  /\ call.new = <<"a">>
  /\ DOMAIN pre = {<<"a">>, <<"a", "/", "a">>}
  /\ RemoveAllCalls = 2
  /\ err = NoErr
  /\ files = EmptyFS

====
